---- MODULE Spec2Model ----
(***************************************************************************)
(* Verification model of the tx2-ecs runtime core: the reactive graph      *)
(* (signals, computeds, effects, batching), the component store with its   *)
(* query engine and cache, and the phased system scheduler.                *)
(*                                                                         *)
(* The specifications share the module; each one moves only its own group  *)
(* of variables:                                                           *)
(*   SpecReactive  - src/reactive/signal.ts                                *)
(*   SpecBatch     - batch(), with callbacks that throw                    *)
(*   SpecCleanup   - effects whose function returns a cleanup              *)
(*   SpecDynamic   - functions whose reads depend on a signal              *)
(*   SpecLazy      - computeds read with get() and peek()                  *)
(*   SpecDisposal  - Computed.dispose()                                    *)
(*   SpecWorld     - src/core/world.ts, component.ts, query.ts (cache)     *)
(*   SpecQuery     - the same World, with queries built by queryBuilder()  *)
(*   SpecSched     - src/core/system.ts, error.ts, world.ts (phases)       *)
(*   SpecOrder     - runBefore / runAfter / priority declarations          *)
(*   SpecFixed     - World.update: the fixed-step accumulator              *)
(*   SpecEntities  - entity ids: createEntity, createEntityWithId          *)
(*   SpecDestroy   - destroyEntity and the queries that saw the entity     *)
(*   SpecCache     - QueryCache keys and World.clear()                     *)
(*   SpecObserve   - Query.reactive() read by an effect                    *)
(*   SpecCyclic    - graphs with a cycle through a computed                *)
(*   SpecUnwind    - operations that throw: observer and batch depth       *)
(*   SpecStore     - ComponentStore: components and its type index         *)
(*   SpecStrategy  - error handlers that return each strategy              *)
(*   SpecRestore   - Serializer.restoreSnapshot and entity ids             *)
(*   SpecReentrant - update() called while an update() awaits              *)
(*   SpecTime      - the same calls: time, fixedTime, accumulator          *)
(*   SpecDetached  - Query objects kept across World.clear()               *)
(*   SpecLoop      - World.start() / stop() and the frame loop             *)
(***************************************************************************)
EXTENDS Integers, Sequences, FiniteSets, TLC

\* ------------------------------------------------------------------------
\* Ordered sets.  A JavaScript Set and Map iterate in insertion order, and the
\* order decides which subscriber is updated first, so they are sequences
\* without repetition.
\* ------------------------------------------------------------------------
Has(q, x) ==
    \E i \in 1..Len(q) : q[i] = x

SetAdd(q, x) ==
    IF Has(q, x) THEN q ELSE Append(q, x)

SetDelete(q, x) ==
    SelectSeq(q, LAMBDA y : y # x)

Range(q) ==
    {q[i] : i \in 1..Len(q)}

\* ========================================================================
\* State
\* ========================================================================

VARIABLES
    graph,            \* the user functions of the computeds and effects
    spied,            \* the user functions that carry a spy
    value,            \* Signal.value
    cvalue,           \* Computed.value
    computed,         \* Computed.computed
    stale,            \* ReactiveNode.stale
    subscribers,      \* ReactiveNode.subscribers (insertion order)
    dependencies,     \* ReactiveNode.dependencies (insertion order)
    created,          \* the effects constructed so far
    disposed,         \* Effect.disposed
    cleanup,          \* Effect.cleanup holds a closure
    currentObserver,  \* the global current observer
    batchDepth,       \* the global batch depth
    batchedSignals,   \* the global set of signals written in the batch
    \* history of the last top-level operation
    op,               \* what it was
    runs,             \* how often each effect body ran in it
    glitch,           \* an observer read a computed that was out of date
    expected,         \* effects that depended on a signal it propagated
    written,          \* signals genuinely written in the open batch
    disposeCalled,    \* dispose() has been called on the effect or computed
    badRun,           \* an effect body ran after dispose() was called on it
    closure,          \* the closure the effect's latest run returned, if any,
                      \* and how often it has been invoked
    cleanupBad,       \* a closure was invoked twice, or a run began with the
                      \* closure of the previous run not invoked once
    lastReads,        \* the nodes each live function read in its latest
                      \* evaluation
    everRead,         \* the spy's log: the nodes the function has ever read
    evals,            \* the spy's count: how often each derivation ran in the
                      \* last operation
    overflow          \* the last operation nested recompute() / run() calls
                      \* beyond MaxDepth: its recursion has no end

rvars ==
    <<graph, spied, value, cvalue, computed, stale, subscribers, dependencies,
      created, disposed, cleanup, currentObserver, batchDepth,
      batchedSignals, op, runs, glitch, expected, written, disposeCalled,
      badRun, closure, cleanupBad, lastReads, everRead, evals, overflow>>

VARIABLES
    entities,         \* World.entities (the ids alive)
    nextEntityId,     \* the module counter of entity.ts
    components,       \* ComponentStore.components: entity -> type -> list
    componentIndex,   \* ComponentStore.componentIndex: type -> set of entities
    queries,          \* QueryCache.queries: key -> Query
    detached,         \* the Query objects the cache has dropped and the
                      \* program still holds: key -> Query
    wop               \* history: the last World operation and its result

wvars ==
    <<entities, nextEntityId, components, componentIndex, queries, detached,
      wop>>

VARIABLES
    schedule,             \* the System objects the program built
    errorHandler,         \* World.errorHandler
    systems,              \* SystemScheduler.systems (registration order)
    enabled,              \* System.enabled
    consecutiveFailures,  \* System.consecutiveFailures
    executionOrder,       \* SystemScheduler.executionOrder: phase -> ids
    dirty,                \* SystemScheduler.dirty
    accumulator,          \* World.accumulator
    time,                 \* World.time, as the spies of the systems see it
    fixedTime,            \* World.fixedTime, as they see it
    fixedRuns,            \* their count of the fixedUpdate phase executions
                          \* that ran to their end
    paused,               \* World.paused
    call,                 \* the init/update/cleanup call awaiting a system
    second,               \* a second call, made before `call` has resolved
    \* history of the last scheduler step
    phaseLog,             \* the phase executions that ended in it
    sop,                  \* what it was and how it ended
    \* the self-driving loop of World.start
    running,              \* World.running
    frameId,              \* World.frameId
    scheduled,            \* the frame callbacks requested and not yet run
                          \* or cancelled
    ticking,              \* the loop invocations awaiting their update()
    nextFrame             \* the id the next requested frame gets

lvars ==
    <<running, frameId, scheduled, ticking, nextFrame>>

svars ==
    <<schedule, errorHandler, systems, enabled, consecutiveFailures,
      executionOrder, dirty, accumulator, time, fixedTime, fixedRuns, paused,
      call, second, phaseLog, sop, lvars>>

vars ==
    <<rvars, wvars, svars>>

\* ========================================================================
\* PART 1.  Reactive graph
\* ========================================================================

None == "none"

\* Signal values are numbers; NaN is the one number that === does not hold
\* equal to itself.
NaN == -1

MaxVal == 1

Vals == (0..MaxVal) \cup {NaN}

MaxBatchDepth == 2

\* The deepest nesting of recompute() and run() calls followed; no graph
\* without a cycle nests them deeper than its number of nodes.
MaxDepth == 8

Signals == {"s", "t"}

Computeds == {"b", "c", "d"}

Effects == {"e", "f"}

Nodes == Signals \cup Computeds \cup Effects

\* Object.is on the numbers of Vals: NaN is the same value as NaN (there is
\* no -0 in Vals).
StrictEquals(a, b) ==
    a = b /\ a # NaN

ObjectIs(a, b) ==
    a = b

\* Arithmetic of a derivation: the sum of what it read; NaN absorbs.
Plus(a, b) ==
    IF a = NaN \/ b = NaN THEN NaN ELSE a + b

\* JavaScript truthiness of a number.
Truthy(v) ==
    v # 0 /\ v # NaN

\* A user function (a derivation or an effect body):
\*   cond = None : reads the nodes of `reads` in order;
\*   cond # None : cond.get() ? reads : other      (a dynamic dependency)
\* an effect body may then call the disposer of the effect `kill`, once that
\* effect exists, and returns a cleanup closure if `returnsCleanup`.  A derivation
\* returns the sum of the values it read in the chosen branch.
Fn(cond, reads, other, kill, returnsCleanup) ==
    [cond |-> cond, reads |-> reads, other |-> other, kill |-> kill,
     cleanup |-> returnsCleanup, write |-> None]

\* The effect function fn followed by s.set(<the sum it read> + 1).
Writes(fn, s) ==
    [fn EXCEPT !.write = s]

Reads(seq) ==
    Fn(None, seq, <<>>, None, FALSE)

\* The dependency graphs explored: each gives the function of every computed
\* and every effect.
GraphDiamond ==
    [b |-> Reads(<<"s">>), c |-> Reads(<<"s">>), d |-> Reads(<<"b", "c">>),
     e |-> Reads(<<"d">>), f |-> Reads(<<"s", "t">>)]

GraphChain ==
    [b |-> Reads(<<"s">>), c |-> Reads(<<"b">>), d |-> Reads(<<"c">>),
     e |-> Reads(<<"d">>), f |-> Reads(<<"t">>)]

GraphDirectAndChain ==
    [b |-> Reads(<<"s">>), c |-> Reads(<<"b">>), d |-> Reads(<<"t">>),
     e |-> Reads(<<"s", "c">>), f |-> Reads(<<"d">>)]

GraphUnevenDiamond ==
    [b |-> Reads(<<"s">>), c |-> Reads(<<"b">>), d |-> Reads(<<"s", "c">>),
     e |-> Reads(<<"d">>), f |-> Reads(<<"t">>)]

GraphShared ==
    [b |-> Reads(<<"s", "t">>), c |-> Reads(<<"s">>), d |-> Reads(<<"t">>),
     e |-> Reads(<<"c">>), f |-> Reads(<<"s", "c">>)]

GraphDynamic ==
    [b |-> Fn("s", <<"t">>, <<>>, None, FALSE), c |-> Reads(<<"t">>),
     d |-> Reads(<<"b">>),
     e |-> Fn("s", <<"t">>, <<"c">>, None, FALSE), f |-> Reads(<<"b">>)]

GraphDisposer ==
    [b |-> Reads(<<"s">>), c |-> Reads(<<"t">>), d |-> Reads(<<"b", "c">>),
     e |-> Fn(None, <<"s">>, <<>>, "f", FALSE), f |-> Reads(<<"s", "t">>)]

\* Effects that return a cleanup closure: f is disposed by e, and e calls its
\* own disposer (from its second run on: the first run is the constructor's,
\* before effect() has returned the disposer).
GraphCleanup ==
    [b |-> Reads(<<"s">>), c |-> Reads(<<"t">>), d |-> Reads(<<"b">>),
     e |-> Fn(None, <<"s">>, <<>>, "f", TRUE),
     f |-> Fn(None, <<"t", "b">>, <<>>, None, TRUE)]

GraphSelfDispose ==
    [b |-> Reads(<<"s">>), c |-> Reads(<<"t">>), d |-> Reads(<<"b">>),
     e |-> Fn(None, <<"s">>, <<>>, "e", TRUE),
     f |-> Fn(None, <<"t", "b">>, <<>>, None, TRUE)]

Graphs ==
    {GraphDiamond, GraphChain, GraphDirectAndChain, GraphUnevenDiamond,
     GraphShared, GraphDynamic, GraphDisposer}

\* The reactive state as one record, threaded through the synchronous calls.
RState ==
    [value |-> value, cvalue |-> cvalue, computed |-> computed,
     stale |-> stale, subscribers |-> subscribers,
     dependencies |-> dependencies, disposed |-> disposed,
     cleanup |-> cleanup,
     currentObserver |-> currentObserver, batchDepth |-> batchDepth,
     batchedSignals |-> batchedSignals,
     ret |-> 0,
     runs |-> [x \in Effects |-> 0], glitch |-> FALSE,
     disposeCalled |-> disposeCalled, badRun |-> FALSE,
     closure |-> closure, cleanupBad |-> cleanupBad,
     lastReads |-> lastReads, everRead |-> everRead,
     evals |-> [x \in Computeds |-> 0],
     depth |-> 0, overflow |-> FALSE]

\* What a computed's derivation yields from the signal values `val`.
RECURSIVE TrueValue(_, _)
RECURSIVE TrueSum(_, _, _)

TrueSum(val, seq, i) ==
    IF i > Len(seq) THEN 0
    ELSE Plus(TrueValue(val, seq[i]), TrueSum(val, seq, i + 1))

TrueValue(val, n) ==
    IF n \in Signals THEN val[n]
    ELSE LET fn == graph[n]
         IN  IF fn.cond = None THEN TrueSum(val, fn.reads, 1)
             ELSE IF Truthy(TrueValue(val, fn.cond))
                  THEN TrueSum(val, fn.reads, 1)
                  ELSE TrueSum(val, fn.other, 1)

\* ReactiveNode.track
Track(g, n) ==
    LET o == g.currentObserver
    IN  IF o # None /\ o # n
        THEN [g EXCEPT !.subscribers[n] = SetAdd(@, o),
                       !.dependencies[o] = SetAdd(@, n)]
        ELSE g

\* ReactiveNode.clearDependencies
ClearDependencies(g, n) ==
    [g EXCEPT !.subscribers =
                  [x \in Nodes |->
                      IF Has(g.dependencies[n], x)
                      THEN SetDelete(g.subscribers[x], n)
                      ELSE g.subscribers[x]],
              !.dependencies[n] = <<>>]

\* ReactiveNode.dispose
NodeDispose(g, n) ==
    [ClearDependencies(g, n) EXCEPT !.subscribers[n] = <<>>]

\* The closure a run returned (or none), not invoked yet.
NewClosure(returned) ==
    [returned |-> returned, invoked |-> 0]

RECURSIVE Get(_, _)
RECURSIVE ReadAll(_, _, _, _)
RECURSIVE CallFn(_, _)
RECURSIVE Recompute(_, _)
RECURSIVE Update(_, _)
RECURSIVE Notify(_, _)
RECURSIVE NotifyLoop(_, _, _, _)
RECURSIVE EffectRun(_, _)
RECURSIVE EffectDispose(_, _)
RECURSIVE SignalSet(_, _, _)

\* Signal.get
SignalGet(g, s) ==
    [Track(g, s) EXCEPT !.ret = g.value[s]]

\* Computed.get.  (No derivation of the model yields undefined, so the
\* 'Computed value is undefined' throw is never taken.)
ComputedReturn(g, g2, c) ==
    LET late == /\ g.currentObserver # None
                /\ g.batchDepth = 0
                /\ ~g2.overflow
                /\ g2.cvalue[c] # TrueValue(g2.value, c)
    IN  [g2 EXCEPT !.ret = g2.cvalue[c], !.glitch = @ \/ late]

ComputedGet(g, c) ==
    ComputedReturn(g, Track(IF g.stale[c] \/ ~g.computed[c]
                            THEN Recompute(g, c) ELSE g, c), c)

\* n.get() called by the function of the current observer: the read is
\* recorded.
Read(g, n) ==
    LET o == g.currentObserver
    IN  IF o = None THEN g
        ELSE [g EXCEPT !.lastReads[o] = @ \cup {n},
                       !.everRead[o] = IF o \in spied THEN @ \cup {n} ELSE @]

Get(g, n) ==
    IF n \in Signals THEN SignalGet(Read(g, n), n)
    ELSE ComputedGet(Read(g, n), n)

\* The reads seq[i..] of a user function, in order; ret is acc plus their sum.
ReadAll(g, seq, i, acc) ==
    IF i > Len(seq) THEN [g EXCEPT !.ret = acc]
    ELSE LET g1 == Get(g, seq[i])
         IN  ReadAll(g1, seq, i + 1, Plus(acc, g1.ret))

\* The user function of node n, run with n as the current observer.
CallFn(g, n) ==
    LET fn == graph[n]
        g1 == IF fn.cond = None THEN ReadAll(g, fn.reads, 1, 0)
              ELSE LET gc == Get(g, fn.cond)
                   IN  IF Truthy(gc.ret) THEN ReadAll(gc, fn.reads, 1, 0)
                       ELSE ReadAll(gc, fn.other, 1, 0)
    IN  IF fn.kill = None \/ ~created[fn.kill] THEN g1
        ELSE [EffectDispose(g1, fn.kill) EXCEPT !.ret = g1.ret]

\* Computed.recompute, with the prior dependency edges kept.
RecomputeKeepEdges(g, c) ==
    LET prevObserver == g.currentObserver
        g2 == CallFn([g EXCEPT !.currentObserver = c,
                               !.lastReads[c] = {},
                               !.evals[c] = IF c \in spied THEN @ + 1
                                            ELSE @], c)
    IN  [g2 EXCEPT !.cvalue[c] = g2.ret, !.computed[c] = TRUE,
                   !.stale[c] = FALSE, !.currentObserver = prevObserver]

\* A call that nests deeper than MaxDepth, or under which such a call was
\* made, does not return.
Overflows(g) ==
    g.overflow \/ g.depth >= MaxDepth

\* Computed.recompute, with the observer restored after the try block instead
\* of in a finally block: a call that does not return leaves it as it is.
RecomputeNoFinally(g, c) ==
    IF Overflows(g) THEN [g EXCEPT !.overflow = TRUE]
    ELSE
    LET g1 == ClearDependencies(g, c)
        prevObserver == g1.currentObserver
        g2 == CallFn([g1 EXCEPT !.currentObserver = c,
                                !.depth = @ + 1,
                                !.lastReads[c] = {},
                                !.evals[c] = IF c \in spied THEN @ + 1
                                             ELSE @], c)
    IN  [g2 EXCEPT !.cvalue[c] = g2.ret, !.computed[c] = TRUE,
                   !.stale[c] = FALSE,
                   !.currentObserver = IF g2.overflow THEN @
                                       ELSE prevObserver,
                   !.depth = g.depth]

\* Computed.recompute
Recompute(g, c) ==
    IF Overflows(g) THEN [g EXCEPT !.overflow = TRUE]
    ELSE
    LET g1 == ClearDependencies(g, c)
        prevObserver == g1.currentObserver
        g2 == CallFn([g1 EXCEPT !.currentObserver = c,
                                !.depth = @ + 1,
                                !.lastReads[c] = {},
                                !.evals[c] = IF c \in spied THEN @ + 1
                                             ELSE @], c)
    IN  [g2 EXCEPT !.cvalue[c] = g2.ret, !.computed[c] = TRUE,
                   !.stale[c] = FALSE, !.currentObserver = prevObserver,
                   !.depth = g.depth]

\* Computed.update
ComputedUpdate(g, c) ==
    IF ~g.stale[c] THEN g ELSE Notify(Recompute(g, c), c)

\* Effect.update
EffectUpdate(g, e) ==
    IF ~g.stale[e] \/ g.disposed[e] THEN g ELSE EffectRun(g, e)

\* update() of a node; Signal.update does nothing.
Update(g, n) ==
    IF n \in Signals THEN g
    ELSE IF n \in Computeds THEN ComputedUpdate(g, n)
    ELSE EffectUpdate(g, n)

\* ReactiveNode.notify: the second loop over the snapshot.
NotifyLoop(g, n, snap, i) ==
    IF i > Len(snap) THEN g
    ELSE NotifyLoop(IF Has(g.subscribers[n], snap[i])
                    THEN Update(g, snap[i]) ELSE g,
                    n, snap, i + 1)

\* ReactiveNode.notify
Notify(g, n) ==
    LET snap == g.subscribers[n]
        g1 == [g EXCEPT !.stale = [x \in Nodes |->
                                     IF Has(snap, x) THEN TRUE ELSE g.stale[x]]]
    IN  NotifyLoop(g1, n, snap, 1)

\* if (this.cleanup) { this.cleanup(); this.cleanup = undefined; }
InvokeCleanup(g, e) ==
    IF g.cleanup[e]
    THEN [g EXCEPT !.cleanup[e] = FALSE,
                   !.closure[e].invoked = @ + 1,
                   !.cleanupBad = @ \/ g.closure[e].invoked >= 1]
    ELSE g

\* The last statement of an effect function that writes: s.set(sum + 1).
EffectWrite(g, s) ==
    IF s = None THEN g ELSE SignalSet(g, s, Plus(g.ret, 1))

\* this.cleanup = this.effect(): the body of e runs and what it returns is
\* kept.
RunBody(g, e) ==
    LET missed == g.closure[e].returned /\ g.closure[e].invoked # 1
        g1 == CallFn([g EXCEPT !.runs[e] = @ + 1,
                               !.lastReads[e] = {},
                               !.badRun = @ \/ g.disposeCalled[e],
                               !.cleanupBad = @ \/ missed], e)
    IN  [EffectWrite(g1, graph[e].write)
            EXCEPT !.cleanup[e] = graph[e].cleanup,
                   !.closure[e] = NewClosure(graph[e].cleanup)]

\* Effect.run
EffectRun(g, e) ==
    IF g.disposed[e] THEN g
    ELSE IF Overflows(g) THEN [g EXCEPT !.overflow = TRUE]
    ELSE LET g1 == ClearDependencies(g, e)
             prevObserver == g1.currentObserver
             g2 == InvokeCleanup([g1 EXCEPT !.currentObserver = e,
                                            !.depth = @ + 1], e)
             g3 == RunBody(g2, e)
         IN  [g3 EXCEPT !.stale[e] = FALSE, !.currentObserver = prevObserver,
                        !.depth = g.depth]

\* Effect.dispose, with the disposed flag left unset.
EffectDisposeNoFlag(g, e) ==
    IF g.disposed[e] THEN g
    ELSE NodeDispose(InvokeCleanup([g EXCEPT !.disposeCalled[e] = TRUE,
                                             !.lastReads[e] = {}], e),
                     e)

\* Effect.dispose
EffectDispose(g, e) ==
    IF g.disposed[e] THEN g
    ELSE NodeDispose(InvokeCleanup([g EXCEPT !.disposed[e] = TRUE,
                                             !.disposeCalled[e] = TRUE,
                                             !.lastReads[e] = {}], e),
                     e)

\* Signal.set, notifying at once also inside a batch.
SignalSetUnbatched(g, s, v) ==
    IF ~ObjectIs(g.value[s], v)
    THEN Notify([g EXCEPT !.value[s] = v, !.stale[s] = FALSE], s)
    ELSE g

\* Signal.set
SignalSet(g, s, v) ==
    IF ~ObjectIs(g.value[s], v)
    THEN LET g1 == [g EXCEPT !.value[s] = v, !.stale[s] = FALSE]
         IN  IF g1.batchDepth > 0
             THEN [g1 EXCEPT !.batchedSignals = SetAdd(@, s)]
             ELSE Notify(g1, s)
    ELSE g

\* flushBatchedUpdates: the subscribers of the batched signals, in order.
RECURSIVE Pending(_, _, _)
Pending(g, sigs, i) ==
    IF i > Len(sigs) THEN <<>>
    ELSE LET rest == Pending(g, sigs, i + 1)
             mine == g.subscribers[sigs[i]]
         IN  mine \o SelectSeq(rest, LAMBDA x : ~Has(mine, x))

RECURSIVE UpdateAll(_, _, _)
UpdateAll(g, pending, i) ==
    IF i > Len(pending) THEN g
    ELSE UpdateAll(Update(g, pending[i]), pending, i + 1)

\* flushBatchedUpdates
FlushBatchedUpdates(g) ==
    IF Len(g.batchedSignals) = 0 THEN g
    ELSE LET pending == Pending(g, g.batchedSignals, 1)
             g1 == [g EXCEPT !.stale = [x \in Nodes |->
                                          IF Has(pending, x) THEN TRUE
                                          ELSE g.stale[x]],
                             !.batchedSignals = <<>>]
         IN  UpdateAll(g1, pending, 1)

\* The nodes n reaches through its dependency edges.
RECURSIVE Reach(_)
Reach(n) ==
    Range(dependencies[n])
        \cup UNION {Reach(m) : m \in Range(dependencies[n])}

\* The live effects that depend, directly or through computeds, on a signal
\* of S.
DependentEffects(S) ==
    {x \in Effects : created[x] /\ ~disposed[x] /\ Reach(x) \cap S # {}}

\* The state after a synchronous call that ended in state g.
Apply(g) ==
    /\ value' = g.value
    /\ cvalue' = g.cvalue
    /\ computed' = g.computed
    /\ stale' = g.stale
    /\ subscribers' = g.subscribers
    /\ dependencies' = g.dependencies
    /\ disposed' = g.disposed
    /\ cleanup' = g.cleanup
    /\ currentObserver' = g.currentObserver
    /\ batchDepth' = g.batchDepth
    /\ batchedSignals' = g.batchedSignals
    /\ runs' = g.runs
    /\ glitch' = g.glitch
    /\ disposeCalled' = g.disposeCalled
    /\ badRun' = g.badRun
    /\ closure' = g.closure
    /\ cleanupBad' = g.cleanupBad
    /\ lastReads' = g.lastReads
    /\ everRead' = g.everRead
    /\ evals' = g.evals
    /\ overflow' = g.overflow

\* The last operation: its name, its signal or effect, whether it was a
\* repetition (a set() of the held value, a dispose() of a disposed effect),
\* and whether the user function it ended had thrown.
Op(name, node, same, threw) ==
    [name |-> name, node |-> node, same |-> same, threw |-> threw]

\* effect(fn): the constructor runs the body once.
CreateEffect(e) ==
    /\ ~created[e]
    /\ created' = [created EXCEPT ![e] = TRUE]
    /\ Apply(EffectRun(RState, e))
    /\ op' = Op("effect", e, FALSE, FALSE)
    /\ expected' = {}
    /\ UNCHANGED <<graph, spied, written, wvars, svars>>

\* s.set(v) called by the user, outside or inside a batch function.
Set(s, v) ==
    /\ Apply(SignalSet(RState, s, v))
    /\ op' = Op(IF batchDepth = 0 THEN "set" ELSE "batchedSet", s,
                value[s] = v, FALSE)
    /\ expected' = IF batchDepth = 0 /\ value[s] # v
                   THEN DependentEffects({s}) ELSE {}
    /\ written' = IF batchDepth > 0 /\ value[s] # v
                  THEN written \cup {s} ELSE written
    /\ UNCHANGED <<graph, spied, created, wvars, svars>>

\* c.get() called by the user (no current observer).
GetComputed(c) ==
    /\ Apply(ComputedGet(RState, c))
    /\ op' = Op("get", c, FALSE, FALSE)
    /\ expected' = {}
    /\ UNCHANGED <<graph, spied, created, written, wvars, svars>>

\* Computed.peek
ComputedPeek(g, c) ==
    LET g1 == IF ~g.computed[c] THEN Recompute(g, c) ELSE g
    IN  [g1 EXCEPT !.ret = g1.cvalue[c]]

\* c.peek() called by the user.
PeekComputed(c) ==
    /\ Apply(ComputedPeek(RState, c))
    /\ op' = Op("peek", c, FALSE, FALSE)
    /\ expected' = {}
    /\ UNCHANGED <<graph, spied, created, written, wvars, svars>>

\* untrack(fn), for a function that reads the computed c.
Untrack(g, c) ==
    LET prevObserver == g.currentObserver
        g1 == ComputedGet([g EXCEPT !.currentObserver = None], c)
    IN  [g1 EXCEPT !.currentObserver = prevObserver]

\* untrack(() => c.get()) called by the user.
UntrackGet(c) ==
    /\ Apply(Untrack(RState, c))
    /\ op' = Op("untrack", c, FALSE, FALSE)
    /\ expected' = {}
    /\ UNCHANGED <<graph, spied, created, written, wvars, svars>>

\* Computed.dispose
ComputedDispose(g, c) ==
    NodeDispose([g EXCEPT !.computed[c] = FALSE, !.stale[c] = TRUE,
                          !.disposeCalled[c] = TRUE,
                          !.lastReads[c] = {}], c)

\* c.dispose() called by the user.
DisposeComputed(c) ==
    /\ Apply(ComputedDispose(RState, c))
    /\ op' = Op("disposeComputed", c, disposeCalled[c], FALSE)
    /\ expected' = {}
    /\ UNCHANGED <<graph, spied, created, written, wvars, svars>>

\* The disposer returned by effect(fn).
Dispose(e) ==
    /\ created[e]
    /\ Apply(EffectDispose(RState, e))
    /\ op' = Op("dispose", e, disposeCalled[e], FALSE)
    /\ expected' = {}
    /\ UNCHANGED <<graph, spied, created, written, wvars, svars>>

\* batch(fn): entry, batchDepth++.
BatchEnter ==
    /\ batchDepth < MaxBatchDepth
    /\ Apply([RState EXCEPT !.batchDepth = @ + 1])
    /\ op' = Op("batchEnter", None, FALSE, FALSE)
    /\ expected' = {}
    /\ UNCHANGED <<graph, spied, created, written, wvars, svars>>

\* batch(fn): fn has returned or thrown; the finally block, batchDepth-- and
\* the flush at depth zero.
BatchExit(threw) ==
    /\ batchDepth > 0
    /\ LET g1 == [RState EXCEPT !.batchDepth = @ - 1]
       IN  Apply(IF g1.batchDepth = 0 THEN FlushBatchedUpdates(g1) ELSE g1)
    /\ op' = Op(IF batchDepth = 1 THEN "flush" ELSE "batchExit", None, FALSE,
                threw)
    /\ expected' = IF batchDepth = 1 THEN DependentEffects(written) ELSE {}
    /\ written' = IF batchDepth = 1 THEN {} ELSE written
    /\ UNCHANGED <<graph, spied, created, wvars, svars>>

\* ========================================================================
\* PART 2.  World: entities, component store, query engine and cache
\* ========================================================================

MaxEntityId == 2

MaxInstances == 1

MaxQueries == 1

EntityIds == 1..MaxEntityId

\* Component ids are strings; the ones used here are one character long.
Types == {"A", "B"}

\* The order of Array.prototype.sort() on these ids.
TypeOrder == <<"A", "B">>

\* Map.set and Map.delete on a function whose domain is the key set.
MapSet(f, k, v) ==
    [x \in (DOMAIN f) \cup {k} |-> IF x = k THEN v ELSE f[x]]

MapDelete(f, k) ==
    [x \in (DOMAIN f) \ {k} |-> f[x]]

EmptyMap ==
    [x \in {} |-> 0]

\* --- ComponentStore ------------------------------------------------------

\* ComponentStore.has
StoreHas(comps, e, T) ==
    /\ e \in DOMAIN comps
    /\ T \in DOMAIN comps[e]
    /\ Len(comps[e][T]) > 0

\* ComponentStore.getEntitiesWithComponent
GetEntitiesWithComponent(index, T) ==
    IF T \in DOMAIN index THEN index[T] ELSE {}

\* ComponentStore.getAllEntities
GetAllEntities(comps) ==
    DOMAIN comps

\* The index after entity e lost type T, with the emptied entry kept.
IndexRemoveKeepsEmpty(index, e, T) ==
    IF T \in DOMAIN index
    THEN MapSet(index, T, index[T] \ {e})
    ELSE index

\* The index after entity e lost type T: the entry is pruned once empty.
IndexRemove(index, e, T) ==
    IF T \in DOMAIN index
    THEN IF index[T] \ {e} = {} THEN MapDelete(index, T)
         ELSE MapSet(index, T, index[T] \ {e})
    ELSE index

\* ComponentStore.add that replaces the entity's list of T by the instance.
StoreAddOverwrites(st, e, T) ==
    LET entityComponents == IF e \in DOMAIN st.components
                            THEN st.components[e] ELSE EmptyMap
        existing == IF T \in DOMAIN entityComponents
                    THEN entityComponents[T] ELSE <<>>
    IN  [components |-> MapSet(st.components, e,
                               MapSet(entityComponents, T,
                                      <<Len(existing) + 1>>)),
         componentIndex |-> MapSet(st.componentIndex, T,
                               GetEntitiesWithComponent(st.componentIndex, T)
                                   \cup {e}),
         removed |-> FALSE]

\* ComponentStore.add: the instance is appended to the entity's list of T.
StoreAdd(st, e, T) ==
    LET entityComponents == IF e \in DOMAIN st.components
                            THEN st.components[e] ELSE EmptyMap
        existing == IF T \in DOMAIN entityComponents
                    THEN entityComponents[T] ELSE <<>>
        list == Append(existing, Len(existing) + 1)
    IN  [components |-> MapSet(st.components, e,
                               MapSet(entityComponents, T, list)),
         componentIndex |-> MapSet(st.componentIndex, T,
                               GetEntitiesWithComponent(st.componentIndex, T)
                                   \cup {e}),
         removed |-> FALSE]

\* ComponentStore.remove: the whole list of T goes; `removed` is the result.
StoreRemove(st, e, T) ==
    IF e \notin DOMAIN st.components
    THEN [st EXCEPT !.removed = FALSE]
    ELSE IF T \in DOMAIN st.components[e]
         THEN [components |-> MapSet(st.components, e,
                                     MapDelete(st.components[e], T)),
               componentIndex |-> IndexRemove(st.componentIndex, e, T),
               removed |-> TRUE]
         ELSE [st EXCEPT !.removed = FALSE]

\* ComponentStore.removeAllComponents
RECURSIVE IndexRemoveAll(_, _, _)
IndexRemoveAll(index, e, types) ==
    IF types = {} THEN index
    ELSE LET T == CHOOSE x \in types : TRUE
         IN  IndexRemoveAll(IndexRemove(index, e, T), e, types \ {T})

\* removeAllComponents that leaves the reverse index as it is.
StoreRemoveAllKeepsIndex(st, e) ==
    IF e \notin DOMAIN st.components THEN st
    ELSE [components |-> MapDelete(st.components, e),
          componentIndex |-> st.componentIndex,
          removed |-> FALSE]

StoreRemoveAllComponents(st, e) ==
    IF e \notin DOMAIN st.components THEN st
    ELSE [components |-> MapDelete(st.components, e),
          componentIndex |-> IndexRemoveAll(st.componentIndex, e,
                                            DOMAIN st.components[e]),
          removed |-> FALSE]

\* ComponentStore.get: the first instance of T on e, or undefined (instances
\* are numbered from 1, undefined is 0).
StoreGet(comps, e, T) ==
    IF StoreHas(comps, e, T) THEN comps[e][T][1] ELSE 0

\* ComponentStore.getAll: every instance on e, as <<type, instance>> pairs
\* (the array lists them type by type; its order is not kept here).
StoreGetAll(comps, e) ==
    IF e \notin DOMAIN comps THEN {}
    ELSE {<<T, comps[e][T][i]>> : <<T, i>> \in
             {p \in (DOMAIN comps[e]) \X (1..(MaxInstances + 1)) :
                 p[2] <= Len(comps[e][p[1]])}}

\* ComponentStore.clear
StoreClear(st) ==
    [components |-> EmptyMap, componentIndex |-> EmptyMap, removed |-> FALSE]

\* --- Query ----------------------------------------------------------------

Absent == <<"absent">>

\* A QueryDescriptor: each of all / any / none is Absent or a list of types.
Descriptor(all, any, none) ==
    [all |-> all, any |-> any, none |-> none]

Descriptors ==
    {Descriptor(<<"A">>, Absent, Absent),
     Descriptor(<<"B", "A">>, Absent, Absent),
     Descriptor(Absent, <<"A", "B">>, Absent),
     Descriptor(Absent, <<"B">>, <<"A">>),
     Descriptor(<<"A">>, Absent, <<"B">>),
     Descriptor(<<"A">>, <<"B", "A">>, Absent),
     Descriptor(Absent, Absent, <<"B">>),
     Descriptor(<<>>, Absent, <<"A">>)}

Filter(type, comps) ==
    [type |-> type, components |-> comps]

\* Query constructor: one filter per non-empty list, in the order all, any,
\* none.
Filters(d) ==
    (IF d.all # Absent /\ Len(d.all) > 0
     THEN <<Filter("all", d.all)>> ELSE <<>>)
    \o (IF d.any # Absent /\ Len(d.any) > 0
        THEN <<Filter("any", d.any)>> ELSE <<>>)
    \o (IF d.none # Absent /\ Len(d.none) > 0
        THEN <<Filter("none", d.none)>> ELSE <<>>)

\* Query.matches
Matches(comps, filters, e) ==
    \A i \in 1..Len(filters) :
        LET f == filters[i]
        IN  CASE f.type = "all" ->
                   \A j \in 1..Len(f.components) :
                       StoreHas(comps, e, f.components[j])
              [] f.type = "any" ->
                   \E j \in 1..Len(f.components) :
                       StoreHas(comps, e, f.components[j])
              [] f.type = "none" ->
                   ~\E j \in 1..Len(f.components) :
                       StoreHas(comps, e, f.components[j])

\* `candidates` of getCandidateEntities: null or a set of entities.
Null == [null |-> TRUE]

Candidates(ids) ==
    [ids |-> ids]

FiltersOfType(filters, type) ==
    SelectSeq(filters, LAMBDA f : f.type = type)

\* The union loop over the components of the any-filters, stopping after
\* the first component of each.
UnionAnyFirstOnly(index, anyFilters) ==
    UNION {GetEntitiesWithComponent(index, anyFilters[i].components[1]) :
             i \in 1..Len(anyFilters)}

\* The union loop over the components of the any-filters.
UnionAny(index, anyFilters) ==
    UNION {UNION {GetEntitiesWithComponent(index,
                                           anyFilters[i].components[j]) :
                    j \in 1..Len(anyFilters[i].components)} :
             i \in 1..Len(anyFilters)}

\* The narrowing loop over the components comps[j..] of one all-filter.
RECURSIVE NarrowAll(_, _, _, _)
NarrowAll(candidates, index, comps, j) ==
    IF j > Len(comps) THEN candidates
    ELSE LET ents == GetEntitiesWithComponent(index, comps[j])
         IN  NarrowAll(IF candidates = Null THEN Candidates(ents)
                       ELSE Candidates({id \in candidates.ids : id \in ents}),
                       index, comps, j + 1)

\* The loop over the all-filters allFilters[i..].
RECURSIVE NarrowAllFilters(_, _, _, _)
NarrowAllFilters(candidates, index, allFilters, i) ==
    IF i > Len(allFilters) THEN candidates
    ELSE NarrowAllFilters(
             NarrowAll(candidates, index, allFilters[i].components, 1),
             index, allFilters, i + 1)

\* Query.getCandidateEntities
GetCandidateEntities(comps, index, filters) ==
    LET anyFilters == FiltersOfType(filters, "any")
        allFilters == FiltersOfType(filters, "all")
        fromAny == IF Len(anyFilters) > 0
                   THEN Candidates(UnionAny(index, anyFilters))
                   ELSE Null
        narrowed == NarrowAllFilters(fromAny, index, allFilters, 1)
    IN  IF narrowed = Null THEN GetAllEntities(comps) ELSE narrowed.ids

\* Query.resultSignal: null, or a Signal holding a Set object.  ref tells a
\* Set object from the one the signal held before.
NoSignal == [ref |-> None]

\* resultSignal.set(new Set(results)): Object.is of the Set held and a new
\* Set is false, so the value is stored and the subscribers are notified.
ResultSignalSet(sig, results) ==
    LET fresh == [members |-> results, ref |-> 1 - sig.ref]
    IN  IF fresh.ref = sig.ref
        THEN [signal |-> sig, notified |-> FALSE]
        ELSE [signal |-> fresh, notified |-> TRUE]

\* Query.execute: the query after the call; `results` is what it returned,
\* `notified` whether the subscribers of resultSignal were notified.
QueryExecute(q, comps, index) ==
    IF ~q.dirty /\ q.cached
    THEN [q EXCEPT !.results = q.cachedResults]
    ELSE LET results == {e \in GetCandidateEntities(comps, index, q.filters) :
                            Matches(comps, q.filters, e)}
             q1 == [q EXCEPT !.cachedResults = results, !.cached = TRUE,
                             !.dirty = FALSE, !.results = results]
         IN  IF q.resultSignal = NoSignal THEN q1
             ELSE LET set == ResultSignalSet(q.resultSignal, results)
                  IN  [q1 EXCEPT !.resultSignal = set.signal,
                                 !.notified = set.notified]

\* --- QueryCache -----------------------------------------------------------

\* Array.prototype.sort() of a list of ids (no repetitions).
Sort(list) ==
    SelectSeq(TypeOrder, LAMBDA T : Has(list, T))

\* Array.prototype.join(','), as a sequence of characters.
RECURSIVE Join(_, _)
Join(list, i) ==
    IF i > Len(list) THEN <<>>
    ELSE IF i = Len(list) THEN <<list[i]>>
    ELSE <<list[i], ",">> \o Join(list, i + 1)

\* QueryCache.getKey: the key string, as a sequence of characters.
KeyParts(d) ==
    (IF d.all # Absent
     THEN <<<<"a", "l", "l", ":">> \o Join(Sort(d.all), 1)>> ELSE <<>>)
    \o (IF d.any # Absent
        THEN <<<<"a", "n", "y", ":">> \o Join(Sort(d.any), 1)>> ELSE <<>>)
    \o (IF d.none # Absent
        THEN <<<<"n", "o", "n", "e", ":">> \o Join(Sort(d.none), 1)>>
        ELSE <<>>)

RECURSIVE JoinParts(_, _)
JoinParts(parts, i) ==
    IF i > Len(parts) THEN <<>>
    ELSE IF i = Len(parts) THEN parts[i]
    ELSE parts[i] \o <<"|">> \o JoinParts(parts, i + 1)

GetKey(d) ==
    JoinParts(KeyParts(d), 1)

\* String.prototype.includes
Includes(key, id) ==
    \E i \in 0..(Len(key) - Len(id)) :
        \A j \in 1..Len(id) : key[i + j] = id[j]

\* The characters of a component id.
Chars(T) ==
    <<T>>

\* new Query(componentStore, descriptor)
NewQuery(d) ==
    [desc |-> d, filters |-> Filters(d), cachedResults |-> {},
     cached |-> FALSE, dirty |-> TRUE, resultSignal |-> NoSignal,
     results |-> {}, notified |-> FALSE]

\* QueryCache.markDirtyForComponent
MarkDirtyForComponent(qs, T) ==
    [k \in DOMAIN qs |->
        IF Includes(k, Chars(T)) THEN [qs[k] EXCEPT !.dirty = TRUE] ELSE qs[k]]

\* QueryCache.markAllDirty
MarkAllDirty(qs) ==
    [k \in DOMAIN qs |-> [qs[k] EXCEPT !.dirty = TRUE]]

\* --- World ----------------------------------------------------------------

Store ==
    [components |-> components, componentIndex |-> componentIndex,
     removed |-> FALSE]

WOp(name, desc, results, recomputed, threw) ==
    [name |-> name, desc |-> desc, results |-> results,
     recomputed |-> recomputed, threw |-> threw, notified |-> FALSE]

\* The World fields after an operation.
WorldIs(ents, st, qs) ==
    /\ entities' = ents
    /\ components' = st.components
    /\ componentIndex' = st.componentIndex
    /\ queries' = qs
    /\ detached' = detached

\* World.createEntity: new Entity() takes the next id of the counter.
WorldCreateEntity ==
    /\ nextEntityId <= MaxEntityId
    /\ nextEntityId' = nextEntityId + 1
    /\ WorldIs(entities \cup {nextEntityId}, Store, queries)
    /\ wop' = WOp("createEntity", None, {nextEntityId}, FALSE, FALSE)
    /\ UNCHANGED <<rvars, svars>>

\* World.createEntityWithId
WorldCreateEntityWithId(id) ==
    /\ IF id \in entities
       THEN /\ WorldIs(entities, Store, queries)
            /\ wop' = WOp("createEntityWithId", None, {id}, FALSE, TRUE)
       ELSE /\ WorldIs(entities \cup {id}, Store, queries)
            /\ wop' = WOp("createEntityWithId", None, {id}, FALSE, FALSE)
    /\ UNCHANGED <<nextEntityId, rvars, svars>>

\* resetEntityIdCounter(start)
ResetEntityIdCounter(start) ==
    /\ nextEntityId' = start
    /\ WorldIs(entities, Store, queries)
    /\ wop' = WOp("resetEntityIdCounter", None, {}, FALSE, FALSE)
    /\ UNCHANGED <<rvars, svars>>

\* World.destroyEntity
WorldDestroyEntity(e) ==
    /\ IF e \notin entities
       THEN /\ WorldIs(entities, Store, queries)
            /\ wop' = WOp("destroyEntity", None, {}, FALSE, FALSE)
       ELSE /\ WorldIs(entities \ {e}, StoreRemoveAllComponents(Store, e),
                       MarkAllDirty(queries))
            /\ wop' = WOp("destroyEntity", None, {e}, FALSE, FALSE)
    /\ UNCHANGED <<nextEntityId, rvars, svars>>

\* World.addComponent
WorldAddComponent(e, T) ==
    /\ StoreHas(components, e, T) => Len(components[e][T]) < MaxInstances
    /\ IF e \notin entities
       THEN /\ WorldIs(entities, Store, queries)
            /\ wop' = WOp("addComponent", None, {}, FALSE, TRUE)
       ELSE /\ WorldIs(entities, StoreAdd(Store, e, T),
                       MarkDirtyForComponent(queries, T))
            /\ wop' = WOp("addComponent", None, {e}, FALSE, FALSE)
    /\ UNCHANGED <<nextEntityId, rvars, svars>>

\* World.removeComponent
WorldRemoveComponent(e, T) ==
    /\ LET st == StoreRemove(Store, e, T)
       IN  /\ WorldIs(entities, st,
                      IF st.removed THEN MarkDirtyForComponent(queries, T)
                      ELSE queries)
           /\ wop' = WOp("removeComponent", None,
                         IF st.removed THEN {e} ELSE {}, FALSE, FALSE)
    /\ UNCHANGED <<nextEntityId, rvars, svars>>

\* World.clear: the Query objects in the cache are dropped as they are.
WorldClear ==
    /\ entities' = {}
    /\ components' = EmptyMap
    /\ componentIndex' = EmptyMap
    /\ queries' = EmptyMap
    /\ detached' = [k \in DOMAIN detached \cup DOMAIN queries |->
                       IF k \in DOMAIN queries THEN queries[k]
                       ELSE detached[k]]
    /\ wop' = WOp("clear", None, {}, FALSE, FALSE)
    /\ UNCHANGED <<nextEntityId, rvars, svars>>

\* execute() on a Query obtained from world.query before the World was
\* cleared.
WorldExecuteDetached(key) ==
    /\ key \in DOMAIN detached
    /\ LET q == QueryExecute(detached[key], components, componentIndex)
       IN  /\ detached' = [detached EXCEPT ![key] =
                               [q EXCEPT !.results = {}, !.notified = FALSE]]
           /\ wop' = WOp("executeDetached", detached[key].desc, q.results,
                         detached[key].dirty \/ ~detached[key].cached, FALSE)
    /\ UNCHANGED <<entities, nextEntityId, components, componentIndex,
                   queries, rvars, svars>>

\* World.query -> QueryCache.get: the cached Query of the key, or a new one.
\* The Query constructor throws on a descriptor without a filter.
WorldQuery(d) ==
    /\ LET key == GetKey(d)
       IN  IF key \in DOMAIN queries
           THEN /\ WorldIs(entities, Store, queries)
                /\ wop' = WOp("query", d, {}, FALSE, FALSE)
           ELSE IF Len(Filters(d)) = 0
           THEN /\ WorldIs(entities, Store, queries)
                /\ wop' = WOp("query", d, {}, FALSE, TRUE)
           ELSE /\ Cardinality(DOMAIN queries) < MaxQueries
                /\ WorldIs(entities, Store, MapSet(queries, key, NewQuery(d)))
                /\ wop' = WOp("query", d, {}, FALSE, FALSE)
    /\ UNCHANGED <<nextEntityId, rvars, svars>>

\* execute() on a Query obtained from world.query.
WorldExecute(key) ==
    /\ key \in DOMAIN queries
    /\ LET q == QueryExecute(queries[key], components, componentIndex)
       IN  /\ WorldIs(entities, Store,
                      [queries EXCEPT ![key] = [q EXCEPT !.results = {},
                                                        !.notified = FALSE]])
           /\ wop' = [WOp("execute", queries[key].desc, q.results,
                          queries[key].dirty \/ ~queries[key].cached, FALSE)
                          EXCEPT !.notified = q.notified]
    /\ UNCHANGED <<nextEntityId, rvars, svars>>

\* effect(() => query.reactive().get()) on a Query obtained from
\* world.query: reactive() makes the signal from execute(), and the effect
\* runs once and subscribes to it.
WorldObserve(key) ==
    /\ key \in DOMAIN queries
    /\ queries[key].resultSignal = NoSignal
    /\ LET q == QueryExecute(queries[key], components, componentIndex)
       IN  /\ WorldIs(entities, Store,
                      [queries EXCEPT ![key] =
                          [q EXCEPT !.results = {},
                                    !.resultSignal =
                                        [members |-> q.results, ref |-> 0]]])
           /\ wop' = WOp("reactive", queries[key].desc, q.results,
                         queries[key].dirty \/ ~queries[key].cached, FALSE)
    /\ UNCHANGED <<nextEntityId, rvars, svars>>

\* world.queryBuilder() ... build().execute(): a new Query, outside the
\* cache, executed once.
WorldBuildExecute(d) ==
    /\ IF Len(Filters(d)) = 0
       THEN wop' = WOp("build", d, {}, FALSE, TRUE)
       ELSE wop' = WOp("execute", d,
                       QueryExecute(NewQuery(d), components,
                                    componentIndex).results,
                       TRUE, FALSE)
    /\ WorldIs(entities, Store, queries)
    /\ UNCHANGED <<nextEntityId, rvars, svars>>

InitWorld ==
    /\ entities = {}
    /\ nextEntityId = 1
    /\ components = EmptyMap
    /\ componentIndex = EmptyMap
    /\ queries = EmptyMap
    /\ detached = EmptyMap
    /\ wop = WOp("new", None, {}, FALSE, FALSE)

NextWorld ==
    \/ WorldCreateEntity
    \/ \E e \in EntityIds : WorldDestroyEntity(e)
    \/ \E e \in EntityIds, T \in Types : WorldAddComponent(e, T)
    \/ \E e \in EntityIds, T \in Types : WorldRemoveComponent(e, T)
    \/ \E d \in Descriptors : WorldQuery(d)
    \/ \E d \in Descriptors : WorldExecute(GetKey(d))

\* The World with queries built outside the cache.
NextQuery ==
    \/ WorldCreateEntity
    \/ \E e \in EntityIds : WorldDestroyEntity(e)
    \/ \E e \in EntityIds, T \in Types : WorldAddComponent(e, T)
    \/ \E e \in EntityIds, T \in Types : WorldRemoveComponent(e, T)
    \/ \E d \in Descriptors : WorldBuildExecute(d)

\* The World with entities of chosen ids and a counter that is reset.
NextEntities ==
    \/ WorldCreateEntity
    \/ \E id \in EntityIds : WorldCreateEntityWithId(id)
    \/ \E start \in EntityIds : ResetEntityIdCounter(start)
    \/ \E e \in EntityIds : WorldDestroyEntity(e)
    \/ \E e \in EntityIds, T \in Types : WorldAddComponent(e, T)

\* The World with entities that are destroyed and two cached queries.
DescriptorsDestroy ==
    {Descriptor(<<"A">>, Absent, Absent),
     Descriptor(Absent, <<"A", "B">>, <<"B">>)}

NextDestroy ==
    \/ WorldCreateEntity
    \/ \E e \in EntityIds : WorldDestroyEntity(e)
    \/ \E e \in EntityIds, T \in Types : WorldAddComponent(e, T)
    \/ \E d \in DescriptorsDestroy : WorldQuery(d)
    \/ \E d \in DescriptorsDestroy : WorldExecute(GetKey(d))

\* The World with its query cache, asked for descriptors that list the same
\* types in different orders, and cleared.
DescriptorsCache ==
    {Descriptor(<<"A", "B">>, Absent, Absent),
     Descriptor(<<"B", "A">>, Absent, Absent),
     Descriptor(Absent, <<"A", "B">>, Absent),
     Descriptor(<<"A">>, Absent, <<"B">>),
     Descriptor(<<"A">>, <<"B">>, Absent)}

NextCache ==
    \/ WorldCreateEntity
    \/ \E e \in EntityIds, T \in Types : WorldAddComponent(e, T)
    \/ \E d \in DescriptorsCache : WorldQuery(d)
    \/ \E d \in DescriptorsCache : WorldExecute(GetKey(d))
    \/ WorldClear

\* --- Serializer.restoreSnapshot ---------------------------------------------

\* The World fields restoreSnapshot works on.
Restoring ==
    [entities |-> entities, store |-> Store, queries |-> queries]

\* The two loops of updateOrCreateEntity over the component types still to
\* handle: a type the entity holds and the snapshot does not is removed, a
\* type the snapshot holds and the entity does not is added, a type both
\* hold is updated in place.
RECURSIVE RestoreComponents(_, _, _, _)
RestoreComponents(W, e, wanted, todo) ==
    IF todo = {} THEN W
    ELSE LET T == CHOOSE x \in todo : TRUE
             held == StoreHas(W.store.components, e, T)
             W1 == CASE held /\ T \notin wanted ->
                          [W EXCEPT !.store = StoreRemove(@, e, T),
                                    !.queries = MarkDirtyForComponent(@, T)]
                     [] ~held /\ T \in wanted ->
                          [W EXCEPT !.store = StoreAdd(@, e, T),
                                    !.queries = MarkDirtyForComponent(@, T)]
                     [] OTHER -> W
         IN  RestoreComponents(W1, e, wanted, todo \ {T})

\* Serializer.updateOrCreateEntity
UpdateOrCreateEntity(W, e, wanted) ==
    RestoreComponents([W EXCEPT !.entities = @ \cup {e}], e, wanted, Types)

\* The loop of restoreSnapshot over the serialized entities still to
\* handle.
RECURSIVE RestoreEntities(_, _, _)
RestoreEntities(W, snapshot, todo) ==
    IF todo = {} THEN W
    ELSE LET e == CHOOSE x \in todo : TRUE
         IN  RestoreEntities(UpdateOrCreateEntity(W, e, snapshot[e]),
                             snapshot, todo \ {e})

\* Math.max(...ids, 0)
MaxId(ids) ==
    IF ids = {} THEN 0 ELSE CHOOSE x \in ids : \A y \in ids : y <= x

\* The snapshots: some entity ids, each with the component types it holds.
Snapshots ==
    UNION {[ids -> SUBSET Types] : ids \in SUBSET EntityIds}

\* Serializer.restoreSnapshot(world, snapshot)
RestoreSnapshot(snapshot) ==
    /\ LET W == RestoreEntities(Restoring, snapshot, DOMAIN snapshot)
       IN  WorldIs(W.entities, W.store, W.queries)
    /\ nextEntityId' = MaxId(DOMAIN snapshot) + 1
    /\ wop' = WOp("restoreSnapshot", None, DOMAIN snapshot, FALSE, FALSE)
    /\ UNCHANGED <<rvars, svars>>

\* The World whose entities are created by createEntity and by snapshots.
NextRestore ==
    \/ WorldCreateEntity
    \/ \E e \in EntityIds : WorldDestroyEntity(e)
    \/ \E e \in EntityIds, T \in Types : WorldAddComponent(e, T)
    \/ \E snapshot \in Snapshots : RestoreSnapshot(snapshot)

\* The ComponentStore used on its own: no World checks the entity, and an
\* entity may hold several instances of a type.
StoreOp(name, e, T, removed) ==
    [name |-> name, entity |-> e, type |-> T, removed |-> removed]

StoreIs(st) ==
    /\ components' = st.components
    /\ componentIndex' = st.componentIndex
    /\ UNCHANGED <<entities, nextEntityId, queries, detached, rvars, svars>>

StoreAddCall(e, T) ==
    /\ StoreHas(components, e, T) => Len(components[e][T]) <= MaxInstances
    /\ StoreIs(StoreAdd(Store, e, T))
    /\ wop' = StoreOp("add", e, T, FALSE)

StoreRemoveCall(e, T) ==
    /\ StoreIs(StoreRemove(Store, e, T))
    /\ wop' = StoreOp("remove", e, T, StoreRemove(Store, e, T).removed)

StoreRemoveAllCall(e) ==
    /\ StoreIs(StoreRemoveAllComponents(Store, e))
    /\ wop' = StoreOp("removeAllComponents", e, None, FALSE)

StoreClearCall ==
    /\ StoreIs(StoreClear(Store))
    /\ wop' = StoreOp("clear", None, None, FALSE)

NextStore ==
    \/ \E e \in EntityIds, T \in Types : StoreAddCall(e, T)
    \/ \E e \in EntityIds, T \in Types : StoreRemoveCall(e, T)
    \/ \E e \in EntityIds : StoreRemoveAllCall(e)
    \/ StoreClearCall

\* The World cleared while the program holds queries it obtained earlier.
NextDetached ==
    \/ WorldCreateEntity
    \/ \E e \in EntityIds, T \in Types : WorldAddComponent(e, T)
    \/ \E d \in DescriptorsDestroy : WorldQuery(d)
    \/ \E d \in DescriptorsDestroy : WorldExecute(GetKey(d))
    \/ \E d \in DescriptorsDestroy : WorldExecuteDetached(GetKey(d))
    \/ WorldClear

\* The World with effects that read the reactive signal of cached queries.
NextObserve ==
    \/ WorldCreateEntity
    \/ \E e \in EntityIds : WorldDestroyEntity(e)
    \/ \E e \in EntityIds, T \in Types : WorldAddComponent(e, T)
    \/ \E e \in EntityIds, T \in Types : WorldRemoveComponent(e, T)
    \/ \E d \in DescriptorsDestroy : WorldQuery(d)
    \/ \E d \in DescriptorsDestroy : WorldObserve(GetKey(d))
    \/ \E d \in DescriptorsDestroy : WorldExecute(GetKey(d))

\* The entities alive in the World that satisfy descriptor d.
HasType(e, T) ==
    e \in DOMAIN components /\ T \in DOMAIN components[e]

Satisfies(d, e) ==
    /\ d.all # Absent => \A T \in Range(d.all) : HasType(e, T)
    /\ (d.any # Absent /\ d.any # <<>>) => \E T \in Range(d.any) : HasType(e, T)
    /\ d.none # Absent => \A T \in Range(d.none) : ~HasType(e, T)

Matching(d) ==
    {e \in entities : Satisfies(d, e)}

\* ========================================================================
\* PART 3.  System scheduler
\* ========================================================================

MaxPriority == 1
MaxFailures == 3
MaxDelta == 3
fixedTimestep == 2
maxFixedUpdates == 2

\* The World time the spies follow a behaviour up to.
MaxTime == 8

SystemIds == {"X", "Y"}

\* The phases, in the order recomputeExecutionOrder goes through them.
Phases == <<"init", "fixedUpdate", "update", "lateUpdate", "cleanup">>

\* A SystemDescriptor and the behaviour of the function given with it.
\* onError is "absent" or what the handler does: return "IGNORE", return
\* "DISABLE", return "RETRY", return nothing ("void"), or throw ("throws").
SystemDescriptor(phases, runBefore, runAfter, onError, mayThrow) ==
    [phases |-> phases, runBefore |-> runBefore, runAfter |-> runAfter,
     onError |-> onError, mayThrow |-> mayThrow]

\* System constructor
System(d, priority) ==
    [phases |-> d.phases, priority |-> priority, runBefore |-> d.runBefore,
     runAfter |-> d.runAfter, onError |-> d.onError, mayThrow |-> d.mayThrow]

Plain(phases, onError, mayThrow) ==
    SystemDescriptor(phases, <<>>, <<>>, onError, mayThrow)

\* A program: the systems it builds, the World's error handler ("default"
\* is defaultErrorHandler, "throws" a handler that throws) and the highest
\* priority its descriptors use.
Program(descriptors, handler, maxPriority) ==
    [descriptors |-> descriptors, errorHandler |-> handler,
     maxPriority |-> maxPriority]

Programs ==
    {Program("X" :> SystemDescriptor({"update"}, <<"Y">>, <<>>, "absent",
                                     FALSE)
             @@ "Y" :> Plain({"update"}, "absent", FALSE),
             "default", MaxPriority),
     Program("X" :> SystemDescriptor({"update"}, <<>>, <<"Y">>, "absent",
                                     FALSE)
             @@ "Y" :> Plain({"update"}, "absent", FALSE),
             "default", MaxPriority),
     Program("X" :> SystemDescriptor({"update", "cleanup"}, <<>>, <<"Y">>,
                                     "absent", FALSE)
             @@ "Y" :> SystemDescriptor({"update"}, <<>>, <<"X">>, "absent",
                                        FALSE),
             "default", 0),
     Program("X" :> SystemDescriptor({"update"}, <<>>, <<"Y">>, "absent",
                                     FALSE)
             @@ "Y" :> Plain({"update"}, "absent", TRUE),
             "default", 0),
     Program("X" :> Plain({"init", "fixedUpdate"}, "absent", TRUE)
             @@ "Y" :> Plain({"init", "lateUpdate"}, "absent", FALSE),
             "throws", 0),
     Program("X" :> Plain({"update", "lateUpdate"}, "throws", TRUE)
             @@ "Y" :> Plain({"update"}, "absent", FALSE),
             "default", 0),
     Program("X" :> Plain({"fixedUpdate"}, "DISABLE", TRUE)
             @@ "Y" :> Plain({"fixedUpdate", "update"}, "absent", FALSE),
             "default", 0)}

Schedules(program) ==
    {[s \in DOMAIN program.descriptors |->
          System(program.descriptors[s], priority[s])] :
       priority \in [DOMAIN program.descriptors -> 0..program.maxPriority]}

\* --- SystemScheduler.topologicalSort --------------------------------------

\* The sort with the comparator reversed: (a, b) => a.priority - b.priority.
RECURSIVE ByPriorityAscending(_)
ByPriorityAscending(list) ==
    IF list = <<>> THEN <<>>
    ELSE LET rest == ByPriorityAscending(SubSeq(list, 1, Len(list) - 1))
             s == list[Len(list)]
             k == Cardinality({i \in 1..Len(rest) :
                      schedule[rest[i]].priority <= schedule[s].priority})
         IN  SubSeq(rest, 1, k) \o <<s>> \o SubSeq(rest, k + 1, Len(rest))

\* [...systems].sort((a, b) => b.priority - a.priority): a stable sort, by
\* insertion of the last element into the sorted rest.
RECURSIVE ByPriority(_)
ByPriority(list) ==
    IF list = <<>> THEN <<>>
    ELSE LET rest == ByPriority(SubSeq(list, 1, Len(list) - 1))
             s == list[Len(list)]
             k == Cardinality({i \in 1..Len(rest) :
                      schedule[rest[i]].priority >= schedule[s].priority})
         IN  SubSeq(rest, 1, k) \o <<s>> \o SubSeq(rest, k + 1, Len(rest))

\* The closure `visit`; st holds sorted, visited, visiting and whether the
\* circular-dependency error has been thrown.
RECURSIVE Visit(_, _, _)
RECURSIVE VisitAfter(_, _, _, _)
Visit(st, s, systemMap) ==
    IF st.error \/ s \in st.visited THEN st
    ELSE IF s \in st.visiting THEN [st EXCEPT !.error = TRUE]
    ELSE LET st1 == [st EXCEPT !.visiting = @ \cup {s}]
             st2 == VisitAfter(st1, schedule[s].runAfter, 1, systemMap)
             runBefore == schedule[s].runBefore
         IN  IF st2.error THEN st2
             ELSE IF \E i \in 1..Len(runBefore) :
                        /\ runBefore[i] \in systemMap
                        /\ runBefore[i] \notin st2.visited
             THEN [st2 EXCEPT !.visiting = @ \ {s}]
             ELSE [st2 EXCEPT !.visiting = @ \ {s},
                              !.visited = @ \cup {s},
                              !.sorted = Append(@, s)]

\* The loop of `visit` over runAfter[i..].
VisitAfter(st, runAfter, i, systemMap) ==
    IF i > Len(runAfter) \/ st.error THEN st
    ELSE VisitAfter(IF runAfter[i] \in systemMap
                    THEN Visit(st, runAfter[i], systemMap) ELSE st,
                    runAfter, i + 1, systemMap)

\* The loop over byPriority[i..].
RECURSIVE VisitAll(_, _, _, _)
VisitAll(st, byPriority, i, systemMap) ==
    IF i > Len(byPriority) THEN st
    ELSE VisitAll(Visit(st, byPriority[i], systemMap), byPriority, i + 1,
                  systemMap)

TopologicalSort(phaseSystems) ==
    VisitAll([sorted |-> <<>>, visited |-> {}, visiting |-> {},
              error |-> FALSE],
             ByPriority(phaseSystems), 1, Range(phaseSystems))

\* --- executePhase, System.run and the World's phase calls -----------------

\* A system function carries a spy that records the context it is given.
Observed ==
    spied \cap SystemIds # {}

\* What the spies keep of a number of a context.
Seen(n) ==
    IF Observed THEN n ELSE 0

\* deltaTime of the context World builds for a phase.
CtxDeltaTime(S, phase) ==
    CASE phase = "fixedUpdate" -> Seen(fixedTimestep)
      [] phase \in {"update", "lateUpdate"} -> S.call.deltaTime
      [] OTHER -> 0

\* The record of one phase execution.
PhaseRecord(phase, ids, S) ==
    [phase |-> phase, deltaTime |-> CtxDeltaTime(S, phase), ids |-> ids,
     invoked |-> <<>>, inProgress |-> {},
     skipped |-> {}, threw |-> {}, registeredAtStart |-> Range(S.systems),
     enabledAtStart |-> {s \in DOMAIN schedule : S.enabled[s]},
     undisturbed |-> TRUE, aborted |-> FALSE]

NoRecord == [phase |-> None]

\* The record of one update() call that resolved: the accumulator after
\* deltaTime was added, and the phases it executed with their deltaTime.
NoTick == [deltaTime |-> None]

\* No init/update/cleanup call is awaiting a system.
Idle ==
    [kind |-> "idle", idx |-> 0, running |-> None, fixedUpdates |-> 0,
     deltaTime |-> 0, total |-> 0, ran |-> <<>>, log |-> NoRecord]

\* The scheduler and World fields a step works on; thrown is the error on
\* its way up ("none" when there is none), outcome how the step ended.
Sched ==
    [systems |-> systems, enabled |-> enabled,
     consecutiveFailures |-> consecutiveFailures,
     executionOrder |-> executionOrder, dirty |-> dirty,
     accumulator |-> accumulator, time |-> time, fixedTime |-> fixedTime,
     fixedRuns |-> fixedRuns, call |-> call, second |-> second,
     phaseLog |-> <<>>, tick |-> NoTick, consulted |-> <<>>,
     thrown |-> None, outcome |-> "ok"]

\* SystemScheduler.recomputeExecutionOrder, phases Phases[i..].  The thrown
\* error leaves the map cleared up to the failing phase and dirty set.
RECURSIVE RecomputePhases(_, _)
RecomputePhases(S, i) ==
    IF i > Len(Phases) THEN [S EXCEPT !.dirty = FALSE]
    ELSE LET phaseSystems ==
                 SelectSeq(S.systems,
                           LAMBDA s : Phases[i] \in schedule[s].phases)
             sorted == TopologicalSort(phaseSystems)
         IN  IF sorted.error THEN [S EXCEPT !.thrown = "circular"]
             ELSE RecomputePhases(
                      [S EXCEPT !.executionOrder =
                                    MapSet(@, Phases[i], sorted.sorted)],
                      i + 1)

RecomputeExecutionOrder(S) ==
    RecomputePhases([S EXCEPT !.executionOrder = EmptyMap], 1)

\* The promise of the call rejects with the error on its way up.
Reject(S) ==
    [S EXCEPT !.phaseLog = IF S.call.log = NoRecord THEN @
                           ELSE Append(@, [S.call.log EXCEPT
                                               !.aborted = TRUE]),
              !.call = Idle,
              !.outcome = "rejected"]

\* The promise of the call resolves.
Resolve(S) ==
    [S EXCEPT !.call = Idle, !.outcome = "resolved",
              !.tick = IF Observed /\ S.call.kind = "update"
                       THEN [deltaTime |-> S.call.deltaTime,
                             total |-> S.call.total, ran |-> S.call.ran]
                       ELSE NoTick]

\* defaultErrorHandler
DefaultErrorHandler(failures) ==
    IF failures >= 3 THEN "DISABLE" ELSE "IGNORE"

\* System.run without the reset of the counter after a successful run.
SystemRunNoReset(S, s, threw) ==
    IF ~threw
    THEN S
    ELSE LET S1 == [S EXCEPT !.consecutiveFailures[s] = @ + 1,
                             !.call.log.threw = @ \cup {s}]
             onError == schedule[s].onError
         IN  CASE onError = "absent" -> [S1 EXCEPT !.thrown = "system"]
               [] onError = "throws" -> [S1 EXCEPT !.thrown = "handler"]
               [] onError = "DISABLE" -> [S1 EXCEPT !.enabled[s] = FALSE]
               [] OTHER -> S1

\* The spies of the error handlers keep who was called (the "system" or
\* the "world" handler) and the consecutiveFailures of the context.
Consulted(log, who, failures) ==
    IF Observed THEN Append(log, <<who, failures>>) ELSE log

\* System.run once the function of s has settled: returning (threw = FALSE)
\* or throwing.  thrown is set when run itself rejects.
SystemRun(S, s, threw) ==
    IF ~threw
    THEN [S EXCEPT !.consecutiveFailures[s] = 0]
    ELSE LET onError == schedule[s].onError
             S1 == [S EXCEPT !.consecutiveFailures[s] = @ + 1,
                             !.call.log.threw = @ \cup {s},
                             !.consulted =
                                 IF onError = "absent" THEN @
                                 ELSE Consulted(@, "system",
                                          S.consecutiveFailures[s] + 1)]
         IN  CASE onError = "absent" -> [S1 EXCEPT !.thrown = "system"]
               [] onError = "throws" -> [S1 EXCEPT !.thrown = "handler"]
               [] onError = "DISABLE" -> [S1 EXCEPT !.enabled[s] = FALSE]
               [] OTHER -> S1

\* The catch block of executePhase, dropping the strategy of the handler.
ExecutePhaseCatchIgnores(S, s) ==
    IF errorHandler = "throws" THEN [S EXCEPT !.thrown = "handler"]
    ELSE [S EXCEPT !.thrown = None]

\* The catch block of executePhase, rethrowing the error.
ExecutePhaseRethrow(S, s) ==
    S

\* What a handler that returns gives back: defaultErrorHandler decides by
\* the counter, every other handler returns its one strategy or nothing
\* ("void").
HandlerResult(handler, failures) ==
    IF handler = "default" THEN DefaultErrorHandler(failures) ELSE handler

\* The catch block of executePhase; World always passes its errorHandler.
ExecutePhaseCatch(S, s) ==
    LET S1 == [S EXCEPT !.consulted =
                            Consulted(@, "world", S.consecutiveFailures[s])]
    IN  IF errorHandler = "throws" THEN [S1 EXCEPT !.thrown = "handler"]
        ELSE LET strategy == HandlerResult(errorHandler,
                                           S.consecutiveFailures[s])
             IN  [S1 EXCEPT !.thrown = None,
                            !.enabled[s] = IF strategy = "DISABLE" THEN FALSE
                                           ELSE @]

RECURSIVE ExecutePhase(_, _)
RECURSIVE PhaseLoop(_)
RECURSIVE PhaseDone(_)
RECURSIVE FixedLoop(_)

\* SystemScheduler.executePhase up to its first await.
ExecutePhase(S, phase) ==
    LET S1 == IF S.dirty THEN RecomputeExecutionOrder(S) ELSE S
        systemIds == IF phase \in DOMAIN S1.executionOrder
                     THEN S1.executionOrder[phase] ELSE <<>>
    IN  IF S1.thrown # None THEN Reject(S1)
        ELSE PhaseLoop([S1 EXCEPT !.call.idx = 1,
                                  !.call.log =
                                      PhaseRecord(phase, systemIds, S1)])

\* The loop of executePhase without the await: every function is invoked
\* before any has settled.
RECURSIVE PhaseLoopNoAwait(_)
PhaseLoopNoAwait(S) ==
    LET c == S.call
    IN  IF c.idx > Len(c.log.ids) THEN PhaseDone(S)
        ELSE LET s == c.log.ids[c.idx]
             IN  PhaseLoopNoAwait(
                     IF Has(S.systems, s) /\ S.enabled[s]
                     THEN [S EXCEPT !.call.idx = @ + 1,
                                    !.call.log.invoked = Append(@, s),
                                    !.call.log.inProgress = @ \cup {s}]
                     ELSE [S EXCEPT !.call.idx = @ + 1,
                                    !.call.log.skipped = @ \cup {s}])

\* The loop of executePhase from systemIds[idx]: it stops at the await of
\* the next system that is registered and enabled.
PhaseLoop(S) ==
    LET c == S.call
    IN  IF c.idx > Len(c.log.ids) THEN PhaseDone(S)
        ELSE LET s == c.log.ids[c.idx]
             IN  IF Has(S.systems, s) /\ S.enabled[s]
                 THEN [S EXCEPT !.call.running = s,
                                !.call.log.invoked = Append(@, s),
                                !.call.log.inProgress = @ \cup {s},
                                !.outcome = "pending"]
                 ELSE PhaseLoop([S EXCEPT !.call.idx = @ + 1,
                                          !.call.log.skipped = @ \cup {s}])

\* World.init / update / cleanup after executePhase has returned.
PhaseDone(S) ==
    LET phase == S.call.log.phase
        S1 == [S EXCEPT !.phaseLog = Append(@, S.call.log),
                        !.call.ran =
                            IF Observed
                            THEN Append(@, <<phase, S.call.log.deltaTime>>)
                            ELSE @,
                        !.call.log = NoRecord]
    IN  CASE phase \in {"init", "cleanup", "lateUpdate"} -> Resolve(S1)
          [] phase = "update" -> ExecutePhase(S1, "lateUpdate")
          [] phase = "fixedUpdate" ->
               FixedLoop([S1 EXCEPT !.accumulator = @ - fixedTimestep,
                                    !.fixedTime = @ + Seen(fixedTimestep),
                                    !.fixedRuns = @ + Seen(1),
                                    !.call.fixedUpdates = @ + 1])

\* The while loop of World.update without the reset of the accumulator.
FixedLoopCarries(S) ==
    IF /\ S.accumulator >= fixedTimestep
       /\ S.call.fixedUpdates < maxFixedUpdates
    THEN ExecutePhase(S, "fixedUpdate")
    ELSE ExecutePhase(S, "update")

\* The while loop of World.update and what follows it.
FixedLoop(S) ==
    IF /\ S.accumulator >= fixedTimestep
       /\ S.call.fixedUpdates < maxFixedUpdates
    THEN ExecutePhase(S, "fixedUpdate")
    ELSE ExecutePhase(
             IF S.call.fixedUpdates >= maxFixedUpdates
             THEN [S EXCEPT !.accumulator = 0] ELSE S,
             "update")

\* The continuation of executePhase when the function of the awaited
\* system has settled.
Settled(S, threw) ==
    LET s == S.call.running
        S1 == SystemRun([S EXCEPT !.call.running = None,
                                  !.call.log.inProgress = @ \ {s}],
                        s, threw)
        S2 == IF S1.thrown # None THEN ExecutePhaseCatch(S1, s) ELSE S1
    IN  IF S2.thrown # None THEN Reject(S2)
        ELSE PhaseLoop([S2 EXCEPT !.call.idx = @ + 1])

\* --- Steps ------------------------------------------------------------------

SOp(outcome, cause) ==
    [outcome |-> outcome, cause |-> cause, tick |-> NoTick,
     consulted |-> <<>>]

\* The fields after a step that ended in S.
SchedIs(S) ==
    /\ systems' = S.systems
    /\ enabled' = S.enabled
    /\ consecutiveFailures' = S.consecutiveFailures
    /\ executionOrder' = S.executionOrder
    /\ dirty' = S.dirty
    /\ accumulator' = S.accumulator
    /\ time' = S.time
    /\ fixedTime' = S.fixedTime
    /\ fixedRuns' = S.fixedRuns
    /\ call' = S.call
    /\ second' = S.second
    /\ phaseLog' = S.phaseLog
    /\ sop' = [SOp(S.outcome, S.thrown) EXCEPT !.tick = S.tick,
                                               !.consulted = S.consulted]
    /\ UNCHANGED lvars

\* A call made while a phase execution awaits a system.
Disturbed(S) ==
    IF S.call.kind = "idle" THEN S
    ELSE [S EXCEPT !.call.log.undisturbed = FALSE]

\* World.addSystem -> SystemScheduler.add
AddSystem(s) ==
    /\ SchedIs(IF Has(systems, s)
               THEN [Sched EXCEPT !.thrown = "exists", !.outcome = "threw"]
               ELSE Disturbed([Sched EXCEPT !.systems = Append(@, s),
                                            !.dirty = TRUE]))
    /\ UNCHANGED <<schedule, errorHandler, paused, rvars, wvars>>

\* World.removeSystem -> SystemScheduler.remove
RemoveSystem(s) ==
    /\ SchedIs(IF Has(systems, s)
               THEN Disturbed([Sched EXCEPT !.systems = SetDelete(@, s),
                                            !.dirty = TRUE])
               ELSE Sched)
    /\ UNCHANGED <<schedule, errorHandler, paused, rvars, wvars>>

\* System.setEnabled
SetEnabled(s, b) ==
    /\ SchedIs(Disturbed([Sched EXCEPT !.enabled[s] = b]))
    /\ UNCHANGED <<schedule, errorHandler, paused, rvars, wvars>>

\* World.pause / World.resume
SetPaused(b) ==
    /\ call.kind = "idle"
    /\ paused' = b
    /\ SchedIs(Sched)
    /\ UNCHANGED <<schedule, errorHandler, rvars, wvars>>

Begin(kind) ==
    [Sched EXCEPT !.call = [Idle EXCEPT !.kind = kind]]

\* World.init, up to its first await of a system or to its end.
WorldInit ==
    /\ call.kind = "idle"
    /\ SchedIs(ExecutePhase(Begin("init"), "init"))
    /\ UNCHANGED <<schedule, errorHandler, paused, rvars, wvars>>

\* World.update, up to its first await of a system or to its end, for an
\* accumulator that stays within most.
WorldUpdateWithin(deltaTime, most) ==
    /\ call.kind = "idle"
    /\ accumulator + deltaTime <= most
    /\ time + Seen(deltaTime) <= MaxTime
    /\ SchedIs(IF paused THEN [Sched EXCEPT !.outcome = "resolved"]
               ELSE FixedLoop([Begin("update") EXCEPT
                                   !.time = @ + Seen(deltaTime),
                                   !.accumulator = @ + deltaTime,
                                   !.call.deltaTime = Seen(deltaTime),
                                   !.call.total =
                                       Seen(accumulator + deltaTime)]))
    /\ UNCHANGED <<schedule, errorHandler, paused, rvars, wvars>>

WorldUpdate(deltaTime) ==
    WorldUpdateWithin(deltaTime, fixedTimestep * maxFixedUpdates)

\* World.cleanup, up to its first await of a system or to its end.
WorldCleanup ==
    /\ call.kind = "idle"
    /\ SchedIs(ExecutePhase(Begin("cleanup"), "cleanup"))
    /\ UNCHANGED <<schedule, errorHandler, paused, rvars, wvars>>

\* The function of the awaited system returns or throws, and the call
\* goes on to its next await or to its end.
Settle(threw) ==
    /\ call.kind # "idle"
    /\ threw => /\ schedule[call.running].mayThrow
                /\ consecutiveFailures[call.running] < MaxFailures
    /\ SchedIs(Settled(Sched, threw))
    /\ UNCHANGED <<schedule, errorHandler, paused, rvars, wvars>>

\* --- World.start / World.stop -------------------------------------------------

\* The frames a behaviour requests at most.
MaxFrames == 5

\* What the loop steps leave alone.  What update() does with the systems
\* is in the steps above; here a tick is only the time between the call of
\* update() and the resolution of its promise.
LoopOnly ==
    UNCHANGED <<schedule, errorHandler, systems, enabled,
                consecutiveFailures, executionOrder, dirty, accumulator, time,
                fixedTime, fixedRuns, call, second, phaseLog, sop, rvars,
                wvars>>

\* this.frameId = requestAnimationFrame(loop) (or setTimeout); frame ids
\* start at 1, and frameId is 0 for null.
RequestFrame ==
    /\ nextFrame <= MaxFrames
    /\ frameId' = nextFrame
    /\ scheduled' = scheduled \cup {nextFrame}
    /\ nextFrame' = nextFrame + 1

\* World.start
WorldStart ==
    /\ IF running
       THEN UNCHANGED <<running, paused, frameId, scheduled, nextFrame>>
       ELSE /\ running' = TRUE
            /\ paused' = FALSE
            /\ RequestFrame
    /\ UNCHANGED ticking
    /\ LoopOnly

\* World.stop
WorldStop ==
    /\ running' = FALSE
    /\ frameId' = 0
    /\ scheduled' = scheduled \ {frameId}
    /\ UNCHANGED <<paused, ticking, nextFrame>>
    /\ LoopOnly

\* The callback of frame f runs: `loop` up to its await of update().
FrameFires(f) ==
    /\ f \in scheduled
    /\ scheduled' = scheduled \ {f}
    /\ ticking' = IF running THEN ticking + 1 ELSE ticking
    /\ UNCHANGED <<running, paused, frameId, nextFrame>>
    /\ LoopOnly

\* The promise of an update() the loop awaits resolves: `loop` requests
\* the next frame.
TickResolves ==
    /\ ticking > 0
    /\ ticking' = ticking - 1
    /\ RequestFrame
    /\ UNCHANGED <<running, paused>>
    /\ LoopOnly

NextLoop ==
    \/ WorldStart
    \/ WorldStop
    \/ \E b \in BOOLEAN : SetPaused(b)
    \/ \E f \in 1..MaxFrames : FrameFires(f)
    \/ TickResolves

\* The two calls in flight, exchanged: the steps of a call work on S.call.
Swap(S) ==
    [S EXCEPT !.call = S.second, !.second = S.call]

\* World.update called while an earlier call still awaits a system: it runs
\* up to its own first await or to its end.
WorldUpdateAgain(deltaTime) ==
    /\ call.kind # "idle"
    /\ second.kind = "idle"
    /\ accumulator + deltaTime <= fixedTimestep * maxFixedUpdates
    /\ time + Seen(deltaTime) <= MaxTime
    /\ SchedIs(IF paused THEN [Sched EXCEPT !.outcome = "resolved"]
               ELSE Swap(FixedLoop(
                        [Swap(Sched) EXCEPT
                             !.call = [Idle EXCEPT !.kind = "update"],
                             !.time = @ + Seen(deltaTime),
                             !.accumulator = @ + deltaTime,
                             !.call.deltaTime = Seen(deltaTime),
                             !.call.total = Seen(accumulator + deltaTime)])))
    /\ UNCHANGED <<schedule, errorHandler, paused, rvars, wvars>>

\* The function of the system the second call awaits returns or throws.
SettleOther(threw) ==
    /\ second.kind # "idle"
    /\ threw => /\ schedule[second.running].mayThrow
                /\ consecutiveFailures[second.running] < MaxFailures
    /\ SchedIs(Swap(Settled(Swap(Sched), threw)))
    /\ UNCHANGED <<schedule, errorHandler, paused, rvars, wvars>>

InitPrograms(programs) ==
    /\ \E program \in programs :
           /\ schedule \in Schedules(program)
           /\ errorHandler = program.errorHandler
    /\ systems = <<>>
    /\ enabled = [s \in DOMAIN schedule |-> TRUE]
    /\ consecutiveFailures = [s \in DOMAIN schedule |-> 0]
    /\ executionOrder = EmptyMap
    /\ dirty = TRUE
    /\ accumulator = 0
    /\ time = 0
    /\ fixedTime = 0
    /\ fixedRuns = 0
    /\ paused = FALSE
    /\ call = Idle
    /\ second = Idle
    /\ phaseLog = <<>>
    /\ sop = SOp("ok", None)
    /\ running = FALSE
    /\ frameId = 0
    /\ scheduled = {}
    /\ ticking = 0
    /\ nextFrame = 1

InitSched ==
    InitPrograms(Programs)

NextSched ==
    \/ \E s \in DOMAIN schedule : AddSystem(s)
    \/ \E s \in DOMAIN schedule : RemoveSystem(s)
    \/ \E s \in Range(systems), b \in BOOLEAN : SetEnabled(s, b)
    \/ \E b \in BOOLEAN : SetPaused(b)
    \/ WorldInit
    \/ \E deltaTime \in 0..MaxDelta : WorldUpdate(deltaTime)
    \/ WorldCleanup
    \/ \E threw \in BOOLEAN : Settle(threw)

\* ========================================================================
\* Specifications
\* ========================================================================

InitGraph(graphs, vals, spies) ==
    /\ graph \in graphs
    /\ spied = spies
    /\ value \in [Signals -> vals]
    /\ cvalue = [x \in Computeds |-> 0]
    /\ computed = [x \in Computeds |-> FALSE]
    /\ stale = [x \in Nodes |-> FALSE]
    /\ subscribers = [x \in Nodes |-> <<>>]
    /\ dependencies = [x \in Nodes |-> <<>>]
    /\ created = [x \in Effects |-> FALSE]
    /\ disposed = [x \in Effects |-> FALSE]
    /\ cleanup = [x \in Effects |-> FALSE]
    /\ currentObserver = None
    /\ batchDepth = 0
    /\ batchedSignals = <<>>
    /\ op = Op("new", None, FALSE, FALSE)
    /\ runs = [x \in Effects |-> 0]
    /\ glitch = FALSE
    /\ expected = {}
    /\ written = {}
    /\ disposeCalled = [x \in Computeds \cup Effects |-> FALSE]
    /\ badRun = FALSE
    /\ closure = [x \in Effects |-> NewClosure(FALSE)]
    /\ cleanupBad = FALSE
    /\ lastReads = [x \in Computeds \cup Effects |-> {}]
    /\ everRead = [x \in Computeds \cup Effects |-> {}]
    /\ evals = [x \in Computeds |-> 0]
    /\ overflow = FALSE

NextReactive ==
    \/ \E e \in Effects : CreateEffect(e)
    \/ \E s \in Signals, v \in Vals : Set(s, v)
    \/ \E e \in Effects : Dispose(e)
    \/ BatchEnter
    \/ BatchExit(FALSE)

\* One program of the scheduler part, for the specifications that do not
\* move it.
InitSchedIdle ==
    /\ InitSched
    /\ errorHandler = "throws"

InitReactive ==
    InitGraph(Graphs, Vals, {}) /\ InitWorld /\ InitSchedIdle

SpecReactive ==
    InitReactive /\ [][NextReactive]_vars

InitWorldSpec ==
    InitGraph({GraphDiamond}, {0}, {}) /\ InitWorld /\ InitSchedIdle

InitSchedSpec ==
    InitGraph({GraphDiamond}, {0}, {}) /\ InitWorld /\ InitSched

SpecSched ==
    InitSchedSpec /\ [][NextSched]_vars

SpecWorld ==
    InitWorldSpec /\ [][NextWorld]_vars

SpecQuery ==
    InitWorldSpec /\ [][NextQuery]_vars

SpecEntities ==
    InitWorldSpec /\ [][NextEntities]_vars

SpecDestroy ==
    InitWorldSpec /\ [][NextDestroy]_vars

SpecCache ==
    InitWorldSpec /\ [][NextCache]_vars

SpecObserve ==
    InitWorldSpec /\ [][NextObserve]_vars

SpecStore ==
    InitWorldSpec /\ [][NextStore]_vars

SpecRestore ==
    InitWorldSpec /\ [][NextRestore]_vars

SpecDetached ==
    InitWorldSpec /\ [][NextDetached]_vars

SpecLoop ==
    InitWorldSpec /\ [][NextLoop]_vars

\* Effects that return cleanup closures.
\* A computed and an effect that read t only while s is truthy.
GraphSwitch ==
    [b |-> Fn("s", <<"t">>, <<>>, None, FALSE), c |-> Reads(<<"b">>),
     d |-> Reads(<<"t">>),
     e |-> Fn("s", <<"t">>, <<>>, None, FALSE), f |-> Reads(<<"c">>)]

GraphsCleanup ==
    {GraphCleanup, GraphSelfDispose}

InitCleanup ==
    InitGraph(GraphsCleanup, {0}, {}) /\ InitWorld /\ InitSchedIdle

SpecCleanup ==
    InitCleanup /\ [][NextReactive]_vars

\* The order computation alone: programs of systems for one phase, with
\* functions that return.
ProgramsOrder ==
    {Program("X" :> SystemDescriptor({"update"}, <<"Y">>, <<>>, "absent",
                                     FALSE)
             @@ "Y" :> SystemDescriptor({"update"}, <<"X">>, <<>>, "absent",
                                        FALSE),
             "default", 0),
     Program("X" :> SystemDescriptor({"update"}, <<"Y">>, <<"Y">>, "absent",
                                     FALSE)
             @@ "Y" :> Plain({"update"}, "absent", FALSE),
             "default", 0),
     Program("X" :> SystemDescriptor({"update"}, <<>>, <<"Y">>, "absent",
                                     FALSE)
             @@ "Y" :> SystemDescriptor({"update"}, <<>>, <<"Z">>, "absent",
                                        FALSE)
             @@ "Z" :> SystemDescriptor({"update"}, <<>>, <<"X">>, "absent",
                                        FALSE),
             "default", 0),
     Program("X" :> SystemDescriptor({"update"}, <<>>, <<"Z">>, "absent",
                                     FALSE)
             @@ "Y" :> Plain({"update"}, "absent", FALSE)
             @@ "Z" :> Plain({"update"}, "absent", FALSE),
             "default", MaxPriority),
     Program("X" :> Plain({"update"}, "absent", FALSE)
             @@ "Y" :> Plain({"update"}, "absent", FALSE)
             @@ "Z" :> Plain({"update"}, "absent", FALSE),
             "default", MaxPriority)}

NextOrder ==
    \/ \E s \in DOMAIN schedule : AddSystem(s)
    \/ \E s \in DOMAIN schedule : RemoveSystem(s)
    \/ WorldUpdate(0)
    \/ Settle(FALSE)

InitOrder ==
    InitGraph({GraphDiamond}, {0}, {}) /\ InitWorld
        /\ InitPrograms(ProgramsOrder)

SpecOrder ==
    InitOrder /\ [][NextOrder]_vars

\* Systems of the three phases of update(), whose functions record their
\* context and never throw.
ProgramsFixed ==
    {Program("X" :> Plain({"fixedUpdate"}, "absent", FALSE)
             @@ "Y" :> Plain({"update", "lateUpdate"}, "absent", FALSE),
             "default", 0),
     Program("X" :> Plain({"fixedUpdate", "update"}, "absent", FALSE)
             @@ "Y" :> Plain({"fixedUpdate", "lateUpdate"}, "absent", FALSE),
             "default", 0)}

\* update() with any deltaTime up to one step past the cap.
NextFixed ==
    \/ \E s \in DOMAIN schedule : AddSystem(s)
    \/ \E s \in DOMAIN schedule : RemoveSystem(s)
    \/ \E b \in BOOLEAN : SetPaused(b)
    \/ \E deltaTime \in 0..(fixedTimestep * (maxFixedUpdates + 1)) :
           WorldUpdateWithin(deltaTime,
                             fixedTimestep * (maxFixedUpdates + 2) - 1)
    \/ Settle(FALSE)

InitFixed ==
    InitGraph({GraphDiamond}, {0}, SystemIds) /\ InitWorld
        /\ InitPrograms(ProgramsFixed)

SpecFixed ==
    InitFixed /\ [][NextFixed]_vars

\* Systems that throw, with handlers of their own and World handlers that
\* return each strategy; the handlers carry spies.
ProgramsStrategy ==
    {Program("X" :> Plain({"update"}, "RETRY", TRUE)
             @@ "Y" :> Plain({"update", "lateUpdate"}, "absent", TRUE),
             "RETRY", 0),
     Program("X" :> Plain({"update"}, "IGNORE", TRUE)
             @@ "Y" :> Plain({"update", "lateUpdate"}, "void", TRUE),
             "DISABLE", 0),
     Program("X" :> Plain({"update"}, "DISABLE", TRUE)
             @@ "Y" :> Plain({"update", "lateUpdate"}, "absent", TRUE),
             "void", 0),
     Program("X" :> Plain({"update"}, "throws", TRUE)
             @@ "Y" :> Plain({"update", "lateUpdate"}, "absent", TRUE),
             "IGNORE", 0),
     Program("X" :> Plain({"update"}, "absent", TRUE)
             @@ "Y" :> Plain({"update", "lateUpdate"}, "DISABLE", TRUE),
             "default", 0)}

NextStrategy ==
    \/ \E s \in DOMAIN schedule : AddSystem(s)
    \/ \E s \in Range(systems) : SetEnabled(s, TRUE)
    \/ WorldUpdate(0)
    \/ \E threw \in BOOLEAN : Settle(threw)

InitStrategy ==
    InitGraph({GraphDiamond}, {0}, SystemIds) /\ InitWorld
        /\ InitPrograms(ProgramsStrategy)

SpecStrategy ==
    InitStrategy /\ [][NextStrategy]_vars

\* update() called again before the promise of the previous call has
\* resolved.
NextReentrant ==
    \/ \E s \in DOMAIN schedule : AddSystem(s)
    \/ \E deltaTime \in {0, fixedTimestep} : WorldUpdate(deltaTime)
    \/ \E deltaTime \in {0, fixedTimestep} : WorldUpdateAgain(deltaTime)
    \/ Settle(FALSE)
    \/ SettleOther(FALSE)

InitReentrant ==
    InitGraph({GraphDiamond}, {0}, {}) /\ InitWorld
        /\ InitPrograms(ProgramsFixed)

SpecReentrant ==
    InitReentrant /\ [][NextReentrant]_vars

\* The same calls, with spies that follow World.time and World.fixedTime.
SpecTime ==
    InitFixed /\ [][NextReentrant]_vars

\* Graphs with a cycle: a computed that reads itself, directly or through
\* another computed.
GraphSelfRead ==
    [b |-> Reads(<<"s", "b">>), c |-> Reads(<<"t">>), d |-> Reads(<<"c">>),
     e |-> Reads(<<"d">>), f |-> Reads(<<"t">>)]

GraphMutual ==
    [b |-> Reads(<<"s">>), c |-> Reads(<<"t", "d">>), d |-> Reads(<<"c">>),
     e |-> Reads(<<"d">>), f |-> Reads(<<"b">>)]

GraphFeedback ==
    [b |-> Reads(<<"s">>), c |-> Reads(<<"t">>), d |-> Reads(<<"c">>),
     e |-> Writes(Reads(<<"s">>), "s"), f |-> Reads(<<"b">>)]

GraphsCyclic ==
    {GraphSelfRead, GraphMutual, GraphFeedback}

\* Nothing follows an operation that does not return.
NextCyclic ==
    \/ ~overflow /\ \E e \in Effects : CreateEffect(e)
    \/ ~overflow /\ \E s \in Signals, v \in Vals : Set(s, v)
    \/ ~overflow /\ \E c \in Computeds : GetComputed(c)
    \/ ~overflow /\ \E e \in Effects : Dispose(e)

InitCyclic ==
    InitGraph(GraphsCyclic, Vals, {}) /\ InitWorld /\ InitSchedIdle

SpecCyclic ==
    InitCyclic /\ [][NextCyclic]_vars

\* Every operation of the user on graphs with and without a cycle, inside
\* and outside batches whose function returns or throws.
GraphsUnwind ==
    {GraphSelfRead, GraphMutual, GraphDiamond}

NextUnwind ==
    \/ ~overflow /\ \E e \in Effects : CreateEffect(e)
    \/ ~overflow /\ \E s \in Signals : Set(s, 1 - value[s])
    \/ ~overflow /\ \E c \in Computeds : GetComputed(c)
    \/ ~overflow /\ \E c \in Computeds : PeekComputed(c)
    \/ ~overflow /\ \E c \in Computeds : UntrackGet(c)
    \/ ~overflow /\ BatchEnter
    \/ ~overflow /\ \E threw \in BOOLEAN : BatchExit(threw)

InitUnwind ==
    InitGraph(GraphsUnwind, {0}, {}) /\ InitWorld /\ InitSchedIdle

SpecUnwind ==
    InitUnwind /\ [][NextUnwind]_vars

\* Batches whose function returns or throws.
GraphsBatch ==
    {GraphDiamond, GraphDirectAndChain, GraphDisposer}

NextBatch ==
    \/ NextReactive
    \/ BatchExit(TRUE)

InitBatch ==
    InitGraph(GraphsBatch, {0}, {}) /\ InitWorld /\ InitSchedIdle

SpecBatch ==
    InitBatch /\ [][NextBatch]_vars

\* Functions whose reads depend on what they read.
GraphsDynamic ==
    {GraphSwitch}

InitDynamic ==
    InitGraph(GraphsDynamic, {0}, Computeds \cup Effects) /\ InitWorld /\ InitSchedIdle

SpecDynamic ==
    InitDynamic /\ [][NextReactive]_vars

\* Signals and computeds alone, with the operations user code has on a
\* computed.
GraphsLazy ==
    {GraphChain, GraphDiamond, GraphDynamic}

NextLazy ==
    \/ \E s \in Signals, v \in Vals : Set(s, v)
    \/ \E c \in Computeds : GetComputed(c)
    \/ \E c \in Computeds : PeekComputed(c)
    \/ BatchEnter
    \/ \E threw \in BOOLEAN : BatchExit(threw)

InitLazy ==
    InitGraph(GraphsLazy, {0}, Computeds) /\ InitWorld /\ InitSchedIdle

SpecLazy ==
    InitLazy /\ [][NextLazy]_vars

\* Disposal of computeds, outside batches.
GraphsDisposal ==
    {GraphChain}

NextDisposal ==
    \/ \E s \in Signals, v \in Vals : Set(s, v)
    \/ \E c \in Computeds : GetComputed(c)
    \/ \E c \in Computeds : DisposeComputed(c)

InitDisposal ==
    InitGraph(GraphsDisposal, {0}, {}) /\ InitWorld /\ InitSchedIdle

SpecDisposal ==
    InitDisposal /\ [][NextDisposal]_vars

\* C2 (as claimed): no effect body and no derivation ever reads a computed
\* whose value differs from its derivation applied to the current signals.
C2_GlitchFree ==
    ~glitch

\* C8 (as claimed): an un-batched genuine write runs every dependent effect
\* exactly once.
C8_OncePerWrite ==
    (op.name = "set" /\ ~op.same)
        => \A x \in expected : ~disposeCalled[x] => runs[x] = 1

\* C1 (as claimed): the outermost batch exit runs every effect that depends
\* on a signal written in the batch exactly once.
C1_OncePerBatch ==
    op.name = "flush"
        => \A x \in expected : ~disposeCalled[x] => runs[x] = 1

\* The fields of the reactive graph (the program's own state).
program ==
    <<value, cvalue, computed, stale, subscribers, dependencies, disposed,
      cleanup, currentObserver, batchDepth, batchedSignals>>

\* C9: a set() of the value the signal holds (the same value under
\* Object.is, NaN included) changes no field of the graph, marks no node
\* stale, runs no effect and, inside a batch, adds nothing to the batched
\* signals.
C9_WriteIdempotent ==
    [][(op'.name \in {"set", "batchedSet"} /\ op'.same)
          => (UNCHANGED program /\ \A x \in Effects : runs'[x] = 0)]_vars

\* C9 witness: NaN was written to a signal that holds NaN and has a
\* subscriber.
C9_Witness ==
    /\ op.name \in {"set", "batchedSet"}
    /\ op.same
    /\ value[op.node] = NaN
    /\ subscribers[op.node] # <<>>

\* C10: no effect body runs once dispose() has been called on the effect,
\* and a second dispose() changes nothing.
C10_NoRunAfterDispose ==
    [][/\ ~badRun'
       /\ (op'.name = "dispose" /\ op'.same) => UNCHANGED program]_vars

\* C10 witness: a batch flush had an effect pending that was disposed during
\* the flush, and its body did not run.
C10_Witness ==
    /\ op.name = "flush"
    /\ \E x \in expected : disposeCalled[x] /\ runs[x] = 0

\* C3 (as claimed): execute() on the Query of a descriptor returns exactly
\* the entities alive in the World that match the descriptor.
C3_CacheCoherent ==
    wop.name = "execute" => wop.results = Matching(wop.desc)

\* C7: on a new or dirty Query whose descriptor lists an `all` or an `any`
\* type, execute() returns exactly the entities that have every `all` type,
\* one of the `any` types when some are listed, and no `none` type.
C7_ExecuteExact ==
    (/\ wop.name = "execute"
     /\ wop.recomputed
     /\ \E i \in 1..Len(Filters(wop.desc)) :
            Filters(wop.desc)[i].type \in {"all", "any"})
        => wop.results = Matching(wop.desc)

\* C7 witness: a recomputing execute() of an any-query returned an entity
\* that lacks the first listed `any` type, and left out another entity.
C7_Witness ==
    /\ wop.name = "execute"
    /\ wop.recomputed
    /\ LET d == wop.desc
       IN  /\ d.any # Absent
           /\ Len(d.any) = 2
           /\ \E e \in wop.results : ~HasType(e, d.any[1])
           /\ entities \ wop.results # {}

\* C4 (as claimed): in the execution order computed for a phase, a system
\* that declares runAfter Y comes after Y and a system that declares
\* runBefore Y comes before Y, whatever the priorities and the registration
\* order.
C4_TopologicalOrder ==
    \A phase \in DOMAIN executionOrder :
        LET order == executionOrder[phase]
        IN  \A i, j \in 1..Len(order) :
                /\ Has(schedule[order[i]].runAfter, order[j]) => j < i
                /\ Has(schedule[order[i]].runBefore, order[j]) => i < j

\* C5: when the function of a system throws during a phase execution and
\* the handler consulted returns normally, every system later in the order
\* of the phase gets its turn (it is invoked, or passed over because it is
\* disabled or no longer registered), and the promise of init/update/cleanup
\* rejects only with a circular-dependency error or the error of a handler.
C5_FailureContained ==
    /\ \A k \in 1..Len(phaseLog) :
           LET r == phaseLog[k]
           IN  (r.threw # {} /\ ~(r.aborted /\ sop.cause = "handler"))
               => Range(r.ids) \subseteq Range(r.invoked) \cup r.skipped
    /\ sop.outcome = "rejected" => sop.cause \in {"circular", "handler"}

\* A call resolved after a phase execution in which a system threw and a
\* system later in the order was invoked all the same.
C5_Witness ==
    /\ sop.outcome = "resolved"
    /\ \E k \in 1..Len(phaseLog) :
           LET r == phaseLog[k]
           IN  \E i, j \in 1..Len(r.ids) :
                   /\ i < j
                   /\ r.ids[i] \in r.threw
                   /\ Has(r.invoked, r.ids[j])

\* a must run before b by a declaration of either.
MustPrecede(a, b) ==
    Has(schedule[a].runBefore, b) \/ Has(schedule[b].runAfter, a)

\* The systems that must run after one of S, through n declarations.
RECURSIVE Successors(_, _)
Successors(S, n) ==
    IF n = 0 THEN {}
    ELSE LET next == {b \in DOMAIN schedule : \E a \in S : MustPrecede(a, b)}
         IN  next \cup Successors(next, n - 1)

Circular ==
    \E a \in DOMAIN schedule :
        a \in Successors({a}, Cardinality(DOMAIN schedule))

InvokedCount(r, s) ==
    Cardinality({i \in 1..Len(r.invoked) : r.invoked[i] = s})

\* C6 (as claimed): absent a circular constraint, a phase execution that no
\* other call disturbs invokes each system that is registered for the
\* phase and enabled exactly once, and no other system.
C6_InvokedOnce ==
    ~Circular =>
        \A k \in 1..Len(phaseLog) :
            LET r == phaseLog[k]
            IN  (r.undisturbed /\ ~r.aborted) =>
                    \A s \in DOMAIN schedule :
                        InvokedCount(r, s) =
                            IF /\ s \in r.registeredAtStart
                               /\ s \in r.enabledAtStart
                               /\ r.phase \in schedule[s].phases
                            THEN 1 ELSE 0

\* C11: every cleanup closure an effect's run returned is invoked exactly once:
\* not at all while the effect waits for its next run, once by the time the
\* next run's body begins, once when dispose() has been called, and never a
\* second time.
C11_CleanupOnce ==
    /\ ~cleanupBad
    /\ \A x \in Effects :
           closure[x].returned =>
               closure[x].invoked = IF disposeCalled[x] THEN 1 ELSE 0

\* The effects subscribed to a signal that is pending in the batch.
PendingEffects ==
    {x \in Effects : \E i \in 1..Len(batchedSignals) :
                         Has(subscribers[batchedSignals[i]], x)}

\* C12: a set() made while a batch is open runs no effect body and leaves the
\* signal pending; the exit of a nested batch runs no effect body and leaves
\* the pending signals as they are; the exit of the outermost batch, whether
\* the batch function returned or threw, leaves nothing pending and has run
\* every live effect that was subscribed to a pending signal.
C12_BatchDefers ==
    [][/\ op'.name = "batchedSet" =>
              /\ \A x \in Effects : runs'[x] = 0
              /\ Range(batchedSignals') = written'
       /\ op'.name = "batchExit" =>
              /\ \A x \in Effects : runs'[x] = 0
              /\ batchedSignals' = batchedSignals
              /\ batchDepth' > 0
       /\ op'.name = "flush" =>
              /\ batchDepth' = 0
              /\ batchedSignals' = <<>>
              /\ \A x \in PendingEffects :
                     ~disposeCalled'[x] => runs'[x] >= 1]_vars

\* The outermost batch exits after its function threw, and an effect that
\* depended on a signal written in the batch is re-run.
C12_Witness ==
    /\ op.name = "flush"
    /\ op.threw
    /\ \E x \in expected : runs[x] >= 1

\* C13: the value a get() on a computed returns (the value the computed holds
\* when get() returns) is what its derivation yields from the current values
\* of the signals, whether the writes were made outside or inside a batch.
C13_GetCurrent ==
    op.name = "get" => cvalue[op.node] = TrueValue(value, op.node)

\* What c.get() called by user code would return now.
GetValue(c) ==
    ComputedGet(RState, c).ret

\* The signals an operation wrote and propagated or, in a batch, left pending.
Wrote(o) ==
    IF o.name = "flush" THEN written
    ELSE IF o.name \in {"set", "batchedSet"} /\ ~o.same THEN {o.node}
    ELSE {}

\* C14: after every operation the dependency set of each computed and each
\* live effect is exactly the set of nodes its function read in its latest
\* evaluation; and a write to signals that a function does not depend on any
\* more (directly or through computeds), whatever it read in earlier
\* evaluations, neither runs the effect nor changes what the computed's get()
\* returns.
C14_DynamicDependencies ==
    [][/\ \A n \in Computeds \cup Effects :
              Range(dependencies'[n]) = lastReads'[n]
       /\ \A x \in Effects :
              (created[x] /\ Reach(x) \cap Wrote(op') = {}) => runs'[x] = 0
       /\ \A c \in Computeds :
              (computed[c] /\ Reach(c) \cap Wrote(op') = {}) =>
                  GetValue(c)' = GetValue(c)]_vars

\* A signal is written that a live effect and a computed read in an earlier
\* evaluation but not in their latest one, and the effect is not run.
C14_Witness ==
    /\ op.name = "set"
    /\ ~op.same
    /\ \E x \in Effects :
           /\ created[x] /\ ~disposed[x]
           /\ op.node \in everRead[x] \ Reach(x)
           /\ runs[x] = 0
    /\ \E c \in Computeds :
           /\ computed[c]
           /\ op.node \in everRead[c] \ Reach(c)

\* C15: the derivation of a computed runs in an operation only if the
\* operation is a get() or peek() by user code (on the computed itself or on
\* one that reads it), the computed was stale or never computed, and then it
\* runs once; in particular no set() and no batch exit runs it.
C15_Lazy ==
    [][\A c \in Computeds :
          evals'[c] > 0 =>
              /\ op'.name \in {"get", "peek"}
              /\ stale[c] \/ ~computed[c]
              /\ evals'[c] = 1]_vars

\* C16: once dispose() has been called on an effect or a computed, the node
\* has no dependency edge in either direction (it depends on nothing and
\* subscribes to nothing), whatever operations follow.
C16_DisposalPermanent ==
    \A n \in Computeds \cup Effects :
        disposeCalled[n] =>
            /\ dependencies[n] = <<>>
            /\ \A m \in Nodes : ~Has(subscribers[m], n)

\* The systems of S that must run after one of F, through at most n
\* declarations among the systems of S.
RECURSIVE After(_, _, _)
After(S, F, n) ==
    IF n = 0 THEN {}
    ELSE LET next == {b \in S : \E a \in F : MustPrecede(a, b)}
         IN  next \cup After(S, next, n - 1)

\* The ordering constraints among the systems of `registered` that have the
\* phase contain a cycle.
CircularIn(phase, registered) ==
    LET S == {s \in registered : phase \in schedule[s].phases}
    IN  \E a \in S : a \in After(S, {a}, Cardinality(S))

\* C17: an order computation completes (leaving the scheduler not dirty) only
\* if no phase has a cycle among the constraints of its registered systems,
\* through runAfter and runBefore alike; and a phase execution that began with
\* such a cycle invokes no system.
C17_CycleRejected ==
    /\ ~dirty =>
           \A i \in 1..Len(Phases) : ~CircularIn(Phases[i], Range(systems))
    /\ \A k \in 1..Len(phaseLog) :
           CircularIn(phaseLog[k].phase, phaseLog[k].registeredAtStart) =>
               phaseLog[k].invoked = <<>>
    /\ call.log # NoRecord =>
           (CircularIn(call.log.phase, call.log.registeredAtStart) =>
                call.log.invoked = <<>>)

\* The place of s in the registration order.
Registered(s) ==
    CHOOSE i \in 1..Len(systems) : systems[i] = s

\* a has the higher priority or, at equal priority, was registered first.
Outranks(a, b) ==
    \/ schedule[a].priority > schedule[b].priority
    \/ /\ schedule[a].priority = schedule[b].priority
       /\ Registered(a) < Registered(b)

\* No chain of declarations among the systems of S orders a and b.
Unordered(S, a, b) ==
    /\ b \notin After(S, {a}, Cardinality(S))
    /\ a \notin After(S, {b}, Cardinality(S))

\* The registered systems that have the phase.
PhaseSystems(phase) ==
    {s \in Range(systems) : phase \in schedule[s].phases}

IsRunAfterTarget(S, b) ==
    \E c \in S : Has(schedule[c].runAfter, b)

C19_Sequential ==
    /\ call.log # NoRecord =>
           call.log.inProgress =
               IF call.running = None THEN {} ELSE {call.running}
    /\ \A k \in 1..Len(phaseLog) : phaseLog[k].inProgress = {}

\* A phase execution awaits its second system, the first having settled.
C19_Witness ==
    /\ call.log # NoRecord
    /\ Len(call.log.invoked) = 2
    /\ call.log.invoked[1] # call.log.invoked[2]
    /\ call.running = call.log.invoked[2]
    /\ call.log.inProgress = {call.running}

\* A system registered in one phase that World.update executes once per tick.
OncePerTick(s) ==
    schedule[s].phases \in {{"update"}, {"lateUpdate"}}

\* The step is the one in which the awaited function of s settles.
SettlesNext(s) ==
    /\ call.running = s
    /\ phaseLog' # <<>> \/ call'.idx # call.idx

\* The record, after that step, of the phase execution s was run in.
SettledRecord ==
    IF phaseLog' # <<>> THEN phaseLog'[1] ELSE call'.log

\* The counter of s goes up by one in the step in which its function
\* throws, to 0 in the step in which it returns, and is left alone by every
\* other step.
CountsRuns(s) ==
    consecutiveFailures'[s] =
        IF SettlesNext(s)
        THEN IF s \in SettledRecord.threw
             THEN consecutiveFailures[s] + 1 ELSE 0
        ELSE consecutiveFailures[s]

\* C20: for a system registered in a single per-tick phase,
\* consecutiveFailures is the number of most recent consecutive ticks in
\* which its function threw: it grows by exactly 1 on each failed tick, is
\* reset to 0 by a tick in which the function returns, and is therefore 0
\* after every tick whose execution of the phase did not see the function
\* throw.
C20_FailureStreak ==
    [][\A s \in DOMAIN schedule :
           OncePerTick(s) =>
               /\ CountsRuns(s)
               /\ \A k \in 1..Len(phaseLog') :
                      /\ phaseLog'[k].phase \in schedule[s].phases
                      /\ s \notin phaseLog'[k].threw
                      => consecutiveFailures'[s] = 0]_vars

\* C20 (amended): consecutiveFailures counts the most recent consecutive
\* failures among the ticks in which the function of the system was run; a
\* tick that does not run the function leaves the counter as it is.
C20_FailureStreakAmended ==
    [][\A s \in DOMAIN schedule : OncePerTick(s) => CountsRuns(s)]_vars

\* The function of a system of one per-tick phase has thrown in two ticks
\* in a row, the second one just now.
C20_Witness ==
    \E s \in DOMAIN schedule :
        /\ OncePerTick(s)
        /\ consecutiveFailures[s] = 2
        /\ \E k \in 1..Len(phaseLog) : s \in phaseLog[k].threw

\* The step is one in which the function of s throws and the handler
\* consulted for it (its own onError, else the handler of the World)
\* returns DISABLE.
DisableReturned(s) ==
    /\ SettlesNext(s)
    /\ s \in SettledRecord.threw
    /\ \/ schedule[s].onError = "DISABLE"
       \/ /\ schedule[s].onError = "absent"
          /\ errorHandler = "default"
          /\ consecutiveFailures'[s] >= 3

\* The step invokes the function of s.
Invokes(s) ==
    /\ call'.running = s
    /\ call.running # s \/ SettlesNext(s)

Min(a, b) ==
    IF a <= b THEN a ELSE b

\* n times the item x.
Times(n, x) ==
    [i \in 1..n |-> x]

C23_UniqueIds ==
    [][/\ wop'.name = "createEntity" => wop'.results \cap entities = {}
       /\ (wop'.name = "createEntityWithId" /\ ~wop'.threw) =>
              wop'.results \cap entities = {}
       /\ (wop'.name = "createEntityWithId" /\ wop'.threw) =>
              /\ wop'.results \subseteq entities
              /\ UNCHANGED <<entities, nextEntityId, components,
                             componentIndex, queries>>]_vars

\* Entity e owns no component: it has no entry in the store and is in no
\* set of the reverse index.
OwnsNothing(e) ==
    /\ e \notin DOMAIN components
    /\ \A T \in DOMAIN componentIndex : e \notin componentIndex[T]

C25_MissingEntityThrows ==
    [][(\/ wop'.name = "addComponent" /\ wop'.results = {}
        \/ wop'.name = "removeComponent" /\ entities = {}) =>
           /\ wop'.threw
           /\ UNCHANGED <<entities, components, componentIndex,
                          queries>>]_vars

\* C26: a recomputing execute() of a cached Query whose descriptor has only
\* `none` types returns every entity alive in the World that has none of
\* them.
C26_NoneOnlyScansAll ==
    (/\ wop.name = "execute"
     /\ wop.recomputed
     /\ wop.desc.all = Absent
     /\ wop.desc.any = Absent
     /\ wop.desc.none # Absent)
        => wop.results =
               {e \in entities :
                    \A T \in Range(wop.desc.none) : ~HasType(e, T)}

\* The content of a descriptor: the set of types of each filter kind.
TypeSet(list) ==
    IF list = Absent THEN {} ELSE Range(list)

Content(d) ==
    [all |-> TypeSet(d.all), any |-> TypeSet(d.any), none |-> TypeSet(d.none)]

\* C27: descriptors have the same cache key exactly when they have the same
\* content; world.query returns the Query cached under the key of the
\* descriptor, the one already there if there is one; and a Query once
\* cached stays the Query of its key for the rest of the World's life.
C27_SameInstance ==
    [][/\ \A d1, d2 \in DescriptorsCache :
              GetKey(d1) = GetKey(d2) <=> Content(d1) = Content(d2)
       /\ (wop'.name = "query" /\ ~wop'.threw) =>
              /\ GetKey(wop'.desc) \in DOMAIN queries'
              /\ GetKey(wop'.desc) \in DOMAIN queries =>
                     queries' = queries
       /\ \A k \in DOMAIN queries : k \in DOMAIN queries']_vars

\* C28: a World mutation (addComponent, removeComponent, destroyEntity)
\* that changes the membership of a query whose reactive signal an effect
\* reads re-runs the effect and leaves the new membership in the signal; a
\* mutation that leaves the membership as it was does not re-run it.
C28_ReactiveQuery ==
    [][wop'.name \in {"addComponent", "removeComponent", "destroyEntity"} =>
           \A k \in DOMAIN queries :
               queries[k].resultSignal # NoSignal =>
                   IF Matching(queries[k].desc)' # Matching(queries[k].desc)
                   THEN /\ wop'.notified
                        /\ queries'[k].resultSignal.members =
                               Matching(queries[k].desc)'
                   ELSE ~wop'.notified]_vars

\* C29: every get(), set() and effect creation returns: no operation nests
\* recompute() and run() calls without end.
C29_Terminates ==
    ~overflow

\* C30: in every reachable state the two relations mirror each other: A is
\* in B's subscriber set exactly when B is in A's dependency set.
C30_Symmetric ==
    \A a, b \in Nodes : Has(subscribers[b], a) <=> Has(dependencies[a], b)

\* C31: after any sequence of add, remove, removeAllComponents and clear
\* calls on the ComponentStore the reverse index agrees with the storage:
\* e is in the index set of T exactly when e holds an instance of T, and
\* the index holds no empty set.
C31_IndexAgrees ==
    /\ \A e \in EntityIds, T \in Types :
           e \in GetEntitiesWithComponent(componentIndex, T)
               <=> StoreHas(components, e, T)
    /\ \A T \in DOMAIN componentIndex : componentIndex[T] # {}

\* The last entity of a type was removed while another type is still held.
C31_Witness ==
    /\ wop.name = "remove"
    /\ wop.removed
    /\ wop.type \notin DOMAIN componentIndex
    /\ componentIndex # EmptyMap
    /\ wop.entity \in DOMAIN components

\* C34: add never overwrites: after add(e, c) get(e, T) is still the first
\* instance added, getAll(e) holds what it held and the new instance; one
\* remove(e, T) of a held type returns true and deletes every instance of T
\* on e, so that has(e, T) is false, and leaves the other types alone.
Adds(e, T) ==
    wop'.name = "add" /\ wop'.entity = e /\ wop'.type = T

Removes(e, T) ==
    wop'.name = "remove" /\ wop'.entity = e /\ wop'.type = T

C34_Cardinality ==
    [][\A e \in EntityIds, T \in Types :
          /\ Adds(e, T) =>
                /\ StoreGet(components', e, T) # 0
                /\ StoreHas(components, e, T) =>
                       StoreGet(components', e, T) = StoreGet(components, e, T)
                /\ StoreGetAll(components, e) \subseteq
                       StoreGetAll(components', e)
                /\ Cardinality(StoreGetAll(components', e)) =
                       Cardinality(StoreGetAll(components, e)) + 1
          /\ Removes(e, T) =>
                /\ wop'.removed = StoreHas(components, e, T)
                /\ ~StoreHas(components', e, T)
                /\ StoreGetAll(components', e) =
                       {p \in StoreGetAll(components, e) : p[1] # T}]_vars

\* A second instance was added and the first is the one get returns.
C34_Witness ==
    /\ wop.name = "add"
    /\ StoreHas(components, wop.entity, wop.type)
    /\ Len(components[wop.entity][wop.type]) = 2
    /\ StoreGet(components, wop.entity, wop.type) = 1
    /\ Cardinality(StoreGetAll(components, wop.entity)) = 3

\* The strategy the handler consulted for a failed run of s returns, when
\* it returns: the system's own handler, otherwise the World's.
Returned(s) ==
    IF schedule[s].onError # "absent" THEN schedule[s].onError
    ELSE IF errorHandler = "throws" THEN "throws"
    ELSE HandlerResult(errorHandler, consecutiveFailures'[s])

Fails(s) ==
    SettlesNext(s) /\ s \in SettledRecord.threw

\* DISABLE clears the enabled flag; IGNORE and no returned value leave it
\* alone.
AppliesFlag(s) ==
    /\ Returned(s) = "DISABLE" => ~enabled'[s]
    /\ Returned(s) \in {"IGNORE", "void"} => enabled'[s] = enabled[s]

\* C32: the scheduler applies the strategy the consulted handler returns:
\* DISABLE disables the system, IGNORE or no value leaves it enabled, and
\* RETRY invokes the function of the failing system again at once, in the
\* same phase execution.
C32_StrategyApplied ==
    [][\A s \in DOMAIN schedule :
          Fails(s) =>
              /\ AppliesFlag(s)
              /\ Returned(s) = "RETRY" =>
                     /\ call'.running = s
                     /\ phaseLog' = <<>>]_vars

\* C33: for each failed run exactly one handler is consulted, the system's
\* own when it has one and the World's otherwise, and it is given the
\* counter already incremented.
C33_OneHandler ==
    [][\A s \in DOMAIN schedule :
          Fails(s) =>
              sop'.consulted =
                  <<<<IF schedule[s].onError # "absent" THEN "system"
                      ELSE "world",
                      consecutiveFailures[s] + 1>>>>]_vars

\* C35: in a World whose ids come from createEntity() and from restored
\* snapshots only, the id createEntity() hands out is never the id of an
\* entity alive in the World, whether that entity came from a snapshot or
\* was there before the restore.
C35_NoCollisionAfterRestore ==
    [][wop'.name = "createEntity" =>
           \A e \in wop'.results : e \notin entities]_vars

\* C36: also when update() is called again before the previous call has
\* resolved, at most one system function is in progress at any time and a
\* phase execution of one call does not begin while a phase execution of
\* the other is under way.
C36_NoOverlap ==
    ~(call.running # None /\ second.running # None)

\* C37: execute() on a Query obtained before World.clear() returns, after
\* the clear, only entities that are alive, and exactly the entities that
\* match its descriptor in the World as it is now.
C37_CoherentAcrossClear ==
    wop.name = "executeDetached" =>
        /\ wop.results \subseteq entities
        /\ wop.results = Matching(wop.desc)

\* C38: whatever the order of start() and stop() calls and of the ticks
\* still awaiting their systems, at most one loop is alive (a requested
\* frame or a tick in flight), and a frame that runs while the World is
\* stopped issues no update().
C38_OneLoop ==
    [][/\ Cardinality(scheduled') + ticking' <= 1
       /\ ticking' > ticking => running]_vars

\* C39: whenever an update() has just returned and none is left in flight, the
\* accumulator lies in
\* 0 .. fixedTimestep - 1, fixedTime is fixedTimestep times the number of
\* fixedUpdate phase executions since construction, and fixedTime <= time.
\* Violated by two update() calls that overlap: both pass the loop test on
\* the same accumulator and both subtract a step from it.
C39_TimeInvariants ==
    sop.outcome = "resolved" /\ call.kind = "idle" /\ second.kind = "idle" =>
        /\ 0 <= accumulator /\ accumulator < fixedTimestep
        /\ fixedTime = fixedTimestep * fixedRuns
        /\ fixedTime <= time

\* C40: every operation of the user (get, peek, set, untrack, the creation
\* and disposal of an effect), whether it returns or a function under it
\* throws, leaves the current observer as it found it, which is null, and
\* the batch depth as it found it; the entry of a batch raises the depth by
\* one and its exit, after a function that returned or threw, lowers it by
\* one, so that the batch as a whole leaves the depth as it found it.
C40_Restored ==
    [][/\ currentObserver = None /\ currentObserver' = None
       /\ batchDepth' = CASE op'.name = "batchEnter" -> batchDepth + 1
                           [] op'.name \in {"flush", "batchExit"} ->
                                  batchDepth - 1
                           [] OTHER -> batchDepth]_vars

\* A read inside a batch did not return: a recompute() nested past the
\* stack threw through every recompute() and run() under way.
C40_Witness ==
    /\ overflow
    /\ op.name \in {"get", "peek", "untrack"}
    /\ batchDepth > 0

====
